---- MODULE Spec2Model ----
(***************************************************************************)
(* Model of the keyspace block coordinator of                             *)
(* keyhunt_smart_coordinator_v3.5.0.py: BlockManager, ScanDatabase,       *)
(* StateManager, the pattern filter and the start / select / search /     *)
(* pause / stop / collision machinery of KeyHuntSmartGUI.                 *)
(*                                                                         *)
(* Threads of the program:                                                 *)
(*   - the GTK main loop, which runs button handlers, idle callbacks       *)
(*     (GLib.idle_add) and timeouts (GLib.timeout_add) one at a time;      *)
(*   - one reader thread per call of run_block_search;                     *)
(*   - the scraper threads (scraper_loop, on_manual_scrape).               *)
(* The worker is an external process; its output lines and its exit are    *)
(* inputs.  Boundaries are scaled down to small integers: TLC's integers   *)
(* are 32 bits wide, the program's are arbitrary-precision.                *)
(***************************************************************************)
EXTENDS Integers, Sequences, FiniteSets, TLC

(* ---------------------------- bounds ----------------------------------- *)
\* reader threads (run_block_search calls) created in one behaviour
MaxThreads == 3
\* callbacks waiting in the main loop (idle callbacks plus timeouts)
MaxQueue == 2
\* match markers the readers see in one behaviour
MaxMatches == 1
\* inputs of the environment in one behaviour: button presses, pool scrapes
\* that return blocks, lines of worker output, worker exits, failed launches
MaxInputs == 5

\* library calls: the greatest range start, range end and block size handed to
\* BlockManager
MaxRangeStart == 3
MaxRangeEnd == 12
MaxBlockSize == 5
\* calls of ScanDatabase: the boundaries are 15, 30, .. 15 * MaxBoundary (hex F,
\* 1E, 2D), keys_checked is 0..MaxKeys, and MaxCalls calls are made
MaxBoundary == 3
MaxKeys == 1
MaxCalls == 2
\* calls of PoolScraper: the greatest number of tokens in a document
MaxTokens == 3

(* ----------------------- program constants ----------------------------- *)
\* find_next_block: checks_per_batch
checks_per_batch == 100
\* run_block_search: lines_read >= 10
min_lines == 10
\* run_block_search: self.retry_count < 3
max_retries == 3
\* returncode of a process ended by SIGTERM (process.terminate())
SIGTERM_CODE == -15
\* exit_code the reader uses when there is no process or the wait timed out
NO_EXIT_CODE == -1

None == <<>>

\* no library function has been called
NoCall == [op |-> "none"]

(* ------------------- hex text (hex(n)[2:].upper()) --------------------- *)
\* digits are 0..15; 10..15 stand for 'A'..'F'
RECURSIVE ToHex(_)
ToHex(n) == IF n < 16 THEN <<n>> ELSE Append(ToHex(n \div 16), n % 16)

(* --------------------------- BlockManager ------------------------------ *)
BlockManager(range_start, range_end, block_size) ==
    [range_start  |-> range_start,
     range_end    |-> range_end,
     block_size   |-> block_size,
     total_blocks |-> ((range_end - range_start) \div block_size) + 1]

Min(a, b) == IF a < b THEN a ELSE b

\* get_block without the min against range_end
get_block_unclamped(mgr, block_index) ==
    LET block_start == mgr.range_start + (block_index * mgr.block_size)
    IN  <<block_start, block_start + mgr.block_size - 1>>

get_block(mgr, block_index) ==
    LET block_start == mgr.range_start + (block_index * mgr.block_size)
        block_end   == Min(block_start + mgr.block_size - 1, mgr.range_end)
    IN  <<block_start, block_end>>

(* --------------------------- pattern filter ---------------------------- *)
\* has_repeated_chars: the state of the loop is (count, prev_char); prev_char
\* starts as '' (16 here, no digit).
\* has_repeated_chars without the exemption of '0'
has_repeated_chars_with_zeros(hex_string, min_repeats) ==
    \E i \in 1..Len(hex_string) :
        /\ i + min_repeats - 1 <= Len(hex_string)
        /\ \A j \in i..(i + min_repeats - 1) : hex_string[j] = hex_string[i]

\* is_all_alpha_or_numeric returning has_alpha alone
is_all_alpha_or_numeric_has_alpha(hex_string) ==
    \E i \in 1..Len(hex_string) : hex_string[i] >= 10

RECURSIVE RepeatedFrom(_, _, _, _, _)
RepeatedFrom(hex_string, i, count, prev_char, min_repeats) ==
    IF i > Len(hex_string) THEN FALSE
    ELSE IF hex_string[i] = prev_char
         THEN IF count + 1 >= min_repeats /\ hex_string[i] # 0
              THEN TRUE
              ELSE RepeatedFrom(hex_string, i + 1, count + 1, prev_char, min_repeats)
         ELSE RepeatedFrom(hex_string, i + 1, 1, hex_string[i], min_repeats)

has_repeated_chars(hex_string, min_repeats) ==
    RepeatedFrom(hex_string, 1, 1, 16, min_repeats)

is_all_alpha_or_numeric(hex_string) ==
    LET has_alpha   == \E i \in 1..Len(hex_string) : hex_string[i] >= 10
        has_numeric == \E i \in 1..Len(hex_string) : hex_string[i] <= 9
    IN  has_alpha # has_numeric

\* should_skip_block_by_pattern without the check of exclude_iter3
should_skip_block_by_pattern_without_iter3(pat, block_start, block_end) ==
    LET start_hex == ToHex(block_start)
        end_hex   == ToHex(block_end)
    IN  \/ pat.exclude_iter4 /\ (has_repeated_chars(start_hex, 4) \/ has_repeated_chars(end_hex, 4))
        \/ pat.exclude_alphanum /\ (is_all_alpha_or_numeric(start_hex) \/ is_all_alpha_or_numeric(end_hex))

\* pat = the three check boxes exclude_iter3, exclude_iter4, exclude_alphanum
should_skip_block_by_pattern(pat, block_start, block_end) ==
    LET start_hex == ToHex(block_start)
        end_hex   == ToHex(block_end)
    IN  \/ pat.exclude_iter3 /\ (has_repeated_chars(start_hex, 3) \/ has_repeated_chars(end_hex, 3))
        \/ pat.exclude_iter4 /\ (has_repeated_chars(start_hex, 4) \/ has_repeated_chars(end_hex, 4))
        \/ pat.exclude_alphanum /\ (is_all_alpha_or_numeric(start_hex) \/ is_all_alpha_or_numeric(end_hex))

(* ---------------------------- ScanDatabase ----------------------------- *)
\* pool_scanned and my_scanned are tables keyed by block_start (TEXT PRIMARY
\* KEY); INSERT OR REPLACE removes the row with the same key first.
PoolRow(block_start, block_end) ==
    [block_start |-> ToHex(block_start), block_end |-> ToHex(block_end)]

MyRow(block_start, block_end, keys) ==
    [block_start |-> ToHex(block_start), block_end |-> ToHex(block_end),
     keys_checked |-> keys]

\* add_pool_blocks counting every block as added
add_pool_blocks_all_added(table, blocks) ==
    [table |-> {r \in table : \A i \in 1..Len(blocks) : r.block_start # ToHex(blocks[i][1])}
               \cup {PoolRow(blocks[i][1], blocks[i][2]) : i \in 1..Len(blocks)},
     added_count |-> Len(blocks), duplicate_count |-> 0]

\* add_my_block as a plain INSERT, the row with the same start left in place
add_my_block_insert(table, block_start, block_end, keys) ==
    table \cup {MyRow(block_start, block_end, keys)}

\* is_block_scanned looking the start up only
is_block_scanned_by_start(pool, mine, block_start, block_end) ==
    IF \E r \in pool : r.block_start = ToHex(block_start) THEN <<TRUE, "pool">>
    ELSE IF \E r \in mine : r.block_start = ToHex(block_start) THEN <<TRUE, "me">>
         ELSE <<FALSE, "none">>

\* The loop of add_pool_blocks over blocks, with the table and the two counters
\* as they stand
RECURSIVE add_pool_blocks_loop(_, _, _, _)
add_pool_blocks_loop(table, blocks, added_count, duplicate_count) ==
    IF blocks = <<>>
    THEN [table |-> table, added_count |-> added_count, duplicate_count |-> duplicate_count]
    ELSE LET row    == PoolRow(Head(blocks)[1], Head(blocks)[2])
             exists == \E r \in table : r.block_start = row.block_start
         IN  add_pool_blocks_loop({r \in table : r.block_start # row.block_start} \cup {row},
                                  Tail(blocks),
                                  IF exists THEN added_count ELSE added_count + 1,
                                  IF exists THEN duplicate_count + 1 ELSE duplicate_count)

\* add_pool_blocks asking the table as it was before the call whether a start
\* exists, not the table as the loop has left it
add_pool_blocks_counting_before(table, blocks) ==
    LET fresh == {i \in 1..Len(blocks) :
                     ~\E r \in table : r.block_start = ToHex(blocks[i][1])}
    IN  [table |-> add_pool_blocks_loop(table, blocks, 0, 0).table,
         added_count |-> Cardinality(fresh),
         duplicate_count |-> Len(blocks) - Cardinality(fresh)]

\* the table afterwards and the pair (added_count, duplicate_count) returned
add_pool_blocks(table, blocks) ==
    add_pool_blocks_loop(table, blocks, 0, 0)

add_my_block(table, block_start, block_end, keys) ==
    LET row == MyRow(block_start, block_end, keys)
    IN  {r \in table : r.block_start # row.block_start} \cup {row}

\* the pair (True, "pool"), (True, "me") or (False, None); "none" stands for None
is_block_scanned(pool, mine, block_start, block_end) ==
    LET s == ToHex(block_start)
        e == ToHex(block_end)
    IN  IF \E r \in pool : r.block_start = s /\ r.block_end = e
        THEN <<TRUE, "pool">>
        ELSE IF \E r \in mine : r.block_start = s /\ r.block_end = e
             THEN <<TRUE, "me">>
             ELSE <<FALSE, "none">>


(* ------------------------------ state ---------------------------------- *)
VARIABLES
    cfg,            \* the entry fields and check boxes: range_start, range_end, block_size, exclude_*
    block_mgr,      \* self.block_mgr: None or <<BlockManager>>
    pool_scanned,   \* table pool_scanned
    my_scanned,     \* table my_scanned
    state_file,     \* keyhunt_state_puzzle_N.json: None or <<[current_block_index, keys_checked]>>
    is_running, is_paused,
    process,        \* self.process: 0 (None) or the id of a worker process
    current_block,  \* self.current_block: None or <<start, end>>
    current_block_index,
    keys_checked, session_keys, matches_found,
    retry_count,    \* -1 while the attribute does not exist (hasattr is false)
    start_sens,     \* start buttons sensitive; pause and stop buttons are sensitive
    pause_sens,     \*   exactly when pause_sens
    idleq,          \* callbacks queued by GLib.idle_add, in order
    timers,         \* pending GLib.timeout_add(10, self.find_next_block)
    mainpc,         \* where the main loop is: "idle", or inside on_block_completed
    threads,        \* the run_block_search threads, each with the worker process it spawned
    collided,       \* history: blocks for which scrape_pool detected a collision
    matched,        \* history: blocks in which a match marker was read since the last start
    errored,        \* history: block ends of the workers that printed an error marker since the last start
    inputs,         \* history: the number of inputs the environment has given
    call,           \* the last call of a library function: [op, ...arguments]
    ret             \* what that call returned

vars == <<cfg, block_mgr, pool_scanned, my_scanned, state_file, is_running, is_paused,
          process, current_block, current_block_index, keys_checked, session_keys,
          matches_found, retry_count, start_sens, pause_sens, idleq, timers, mainpc,
          threads, collided, matched, errored, inputs,
          call, ret>>

(* --------------------- configurations and inputs ----------------------- *)
NoPattern == [exclude_iter3 |-> FALSE, exclude_iter4 |-> FALSE, exclude_alphanum |-> FALSE]

\* 0x400..0x4FF in blocks of 0x40: four blocks, no pattern exclusion
CfgPlain == [range_start |-> 1024, range_end |-> 1279, block_size |-> 64, pat |-> NoPattern]
\* 0x110FE..0x11201 in blocks of two keys: 130 blocks, of which blocks 1..128
\* (0x11100..0x111FF) hold the run 111
CfgRuns == [range_start |-> 69886, range_end |-> 70145, block_size |-> 2,
            pat |-> [NoPattern EXCEPT !.exclude_iter3 = TRUE, !.exclude_iter4 = TRUE]]

Configs == {CfgPlain, CfgRuns}

\* The entries of which int(text, 16) raises ValueError: such a configuration
\* has no numbers, only the name of the first entry that does not parse.
UnparsableConfigs ==
    {[bad_text |-> e, pat |-> NoPattern] : e \in {"range_start", "range_end", "block_size"}}

Unparsable(c) == "bad_text" \in DOMAIN c

CfgMgr(c) == BlockManager(c.range_start, c.range_end, c.block_size)

\* cumulative key counts the worker prints in a "T: n" line
KeyCounts(c) == {c.block_size \div 2, c.block_size} \ {0}

\* what scrape_scanned_ranges returns when it returns blocks: one block of the pool
PoolDocs(c) == {<<get_block(CfgMgr(c), 0)>>}

\* What an earlier session left behind, as [mine, saved]: the table my_scanned
\* and the progress file.  Nothing; block 0 completed and the program killed
\* (on_block_completed does not write the progress file); block 0 stopped
\* halfway; or a progress file written halfway through block 1 and not
\* rewritten before block 1 got its row and the program was killed.
Earlier(c) ==
    LET half == c.block_size \div 2
        b0   == get_block(CfgMgr(c), 0)
        b1   == get_block(CfgMgr(c), 1)
    IN  IF c = CfgRuns
        THEN {[mine |-> {}, saved |-> None],
              [mine |-> {MyRow(b0[1], b0[2], c.block_size)}, saved |-> None]}
        ELSE {[mine |-> {}, saved |-> None],
              [mine |-> {}, saved |-> <<[current_block_index |-> 0, keys_checked |-> half]>>],
              [mine |-> {MyRow(b1[1], b1[2], c.block_size)},
               saved |-> <<[current_block_index |-> 1, keys_checked |-> half]>>]}

(* ------------------------------ Init ----------------------------------- *)
\* __init__ (lines 457-466) followed by load_previous_state (2101-2130)
Init ==
    /\ cfg \in Configs
    /\ block_mgr = None
    /\ pool_scanned = {}
    /\ \E e \in Earlier(cfg) : my_scanned = e.mine /\ state_file = e.saved
    /\ is_running = FALSE
    /\ is_paused = FALSE
    /\ process = 0
    /\ current_block = None
    /\ current_block_index = IF state_file = None THEN 0 ELSE state_file[1].current_block_index
    /\ keys_checked = IF state_file = None THEN 0 ELSE state_file[1].keys_checked
    /\ session_keys = 0
    /\ matches_found = 0
    /\ retry_count = -1
    /\ start_sens = TRUE
    /\ pause_sens = FALSE
    /\ idleq = <<>>
    /\ timers = 0
    /\ mainpc = "idle"
    /\ threads = <<>>
    /\ collided = {}
    /\ matched = {}
    /\ errored = {}
    /\ inputs = 0
    /\ call = NoCall
    /\ ret = None


(* ------------------------- helpers of the handlers --------------------- *)
\* threading.Thread(target=self.run_block_search): the thread has not run yet.
\* err and lines are the locals keyhunt_error and lines_read of run_block_search.
\* range, pstate and returncode describe the worker process the thread spawned:
\* its --range argument while it runs, whether it runs, and its return code.
NewThread == [pc |-> "start", range |-> None, err |-> FALSE, lines |-> 0,
              pstate |-> "none", returncode |-> 0]

\* The thread returns: its locals are gone, its process stays.
Return(ths, t) ==
    [ths EXCEPT ![t].pc = "done", ![t].err = FALSE, ![t].lines = 0]

\* The return code of a process is read through self.process only
\* (self.process.wait()), and self.process is set to a process once, when it is
\* spawned: the return code of an ended process that self.process does not
\* refer to is never read, and is dropped.  proc is the value of self.process
\* along with ths.
Settle(ths, proc) ==
    [t \in DOMAIN ths |->
        IF ths[t].pstate = "dead" /\ proc # t
        THEN [ths[t] EXCEPT !.returncode = 0]
        ELSE ths[t]]

\* lines_read += 1.  The code compares lines_read with 0 and with 10 only; the
\* model keeps 0, 1 (standing for 1..9) and 10 (standing for 10 or more), so a
\* count of 1 either stays below 10 or reaches it.
LinesAfter(lines) ==
    IF lines = 0 THEN {1}
    ELSE IF lines >= min_lines THEN {min_lines} ELSE {1, min_lines}

\* process.terminate() (and the wait or kill that follows it): a running
\* process ends with the SIGTERM return code, an ended one keeps its own
Terminate(ths, p) ==
    IF p # 0 /\ ths[p].pstate = "run"
    THEN [ths EXCEPT ![p].pstate = "dead", ![p].returncode = SIGTERM_CODE,
                     ![p].range = None]
    ELSE ths

\* save_current_state writing the block index but not the folded key count
save_state_without_keys(index, keys) ==
    <<[current_block_index |-> index, keys_checked |-> 0]>>

\* StateManager.save_state with the dictionary of save_current_state
save_current_state(index, keys) ==
    <<[current_block_index |-> index, keys_checked |-> keys]>>

\* room for one more callback in the main loop
QueueRoom == Len(idleq) + timers < MaxQueue

(* --------------------------- find_next_block --------------------------- *)
\* find_next_block taking the block at the index as it is, without asking the
\* ledger or the pattern filter
find_next_block_unchecked(mgr, pool, mine, pat, idx) ==
    IF idx < mgr.total_blocks THEN [kind |-> "found", index |-> idx]
    ELSE [kind |-> "end", index |-> idx]

\* The while loop of find_next_block from index idx.  Every block it passes is
\* skipped (claimed or flagged) and counted in checks_done, so the loop ends in
\* one of three ways: "found", at the first block that is not skipped, when
\* fewer than checks_per_batch blocks precede it; "yield", after
\* checks_per_batch skipped blocks, the rest continuing in a timeout; "end",
\* when the index reaches total_blocks.  index is self.current_block_index
\* afterwards.
find_next_block(mgr, pool, mine, pat, idx) ==
    LET skip(j) == LET block == get_block(mgr, j)
                   IN  \/ is_block_scanned(pool, mine, block[1], block[2])[1]
                       \/ should_skip_block_by_pattern(pat, block[1], block[2])
        \* the indices one call examines: at most checks_per_batch, below total_blocks
        last == Min(idx + checks_per_batch, mgr.total_blocks) - 1
        usable == {j \in idx..last : ~skip(j)}
    IN  IF usable # {}
        THEN [kind |-> "found", index |-> CHOOSE j \in usable : \A k \in usable : j <= k]
        ELSE IF idx + checks_per_batch <= mgr.total_blocks
             THEN [kind |-> "yield", index |-> idx + checks_per_batch]
             ELSE [kind |-> "end", index |-> IF idx < mgr.total_blocks
                                             THEN mgr.total_blocks ELSE idx]

\* what find_next_block leaves in self.current_block, self.keys_checked,
\* self.is_running, the set of threads and the pending timeouts
FnbBlock(r, mgr, old) ==
    IF r.kind = "found" THEN get_block(mgr, r.index)
    ELSE IF r.kind = "end" THEN None ELSE old
FnbKeys(r, old) == IF r.kind = "found" THEN 0 ELSE old
FnbRunning(r, old) == IF r.kind = "end" THEN FALSE ELSE old
FnbThreads(r, ths) == IF r.kind = "found" THEN Append(ths, NewThread) ELSE ths
FnbTimers(r, n) == IF r.kind = "yield" THEN n + 1 ELSE n
\* the bounds leave room for what the call creates
FnbRoom(r, extra) ==
    /\ Len(threads) + extra + (IF r.kind = "found" THEN 1 ELSE 0) <= MaxThreads
    /\ r.kind = "yield" => QueueRoom

(* ------------------------------ on_start ------------------------------- *)
on_start ==
    /\ inputs < MaxInputs
    /\ inputs' = inputs + 1
    /\ mainpc = "idle" /\ start_sens
    /\ IF is_running \/ Unparsable(cfg) \/ cfg.block_size = 0
       THEN UNCHANGED <<cfg, block_mgr, pool_scanned, my_scanned, state_file, is_running,
                        is_paused, process, current_block, current_block_index, keys_checked,
                        session_keys, matches_found, retry_count, start_sens, pause_sens,
                        idleq, timers, mainpc, threads, collided, matched, errored, call, ret>>
       ELSE LET mgr == CfgMgr(cfg)
            IN  \E r \in {find_next_block(mgr, pool_scanned, my_scanned, cfg.pat,
                                            current_block_index)} :
                LET blk == FnbBlock(r, mgr, current_block) IN
                /\ FnbRoom(r, 0)
                /\ block_mgr' = <<mgr>>
                /\ current_block' = blk
                /\ current_block_index' = r.index
                /\ keys_checked' = FnbKeys(r, keys_checked)
                /\ threads' = FnbThreads(r, threads)
                /\ timers' = FnbTimers(r, timers)
                /\ is_running' = (FnbRunning(r, TRUE) /\ blk # None)
                /\ start_sens' = IF blk # None THEN FALSE ELSE start_sens
                /\ pause_sens' = IF blk # None THEN TRUE ELSE pause_sens
                /\ UNCHANGED <<cfg, pool_scanned, my_scanned, state_file, is_paused, process,
                               session_keys, matches_found, retry_count, idleq, mainpc,
                               collided>>
                /\ matched' = {}
                /\ errored' = {}
                /\ UNCHANGED <<call, ret>>

(* ------------------------- find_next_block, continued ------------------ *)
\* the timeout registered at a yield calls find_next_block again
find_next_block_timeout ==
    /\ mainpc = "idle" /\ timers > 0
    /\ LET mgr == block_mgr[1]
       IN  \E r \in {find_next_block(mgr, pool_scanned, my_scanned, cfg.pat,
                                       current_block_index)} :
           /\ Len(threads) + (IF r.kind = "found" THEN 1 ELSE 0) <= MaxThreads
           /\ current_block' = FnbBlock(r, mgr, current_block)
           /\ current_block_index' = r.index
           /\ keys_checked' = FnbKeys(r, keys_checked)
           /\ threads' = FnbThreads(r, threads)
           /\ timers' = FnbTimers(r, timers - 1)
           /\ is_running' = FnbRunning(r, is_running)
    /\ UNCHANGED <<cfg, block_mgr, pool_scanned, my_scanned, state_file, is_paused, process,
                   session_keys, matches_found, retry_count, start_sens, pause_sens, idleq,
                   mainpc, collided, matched, errored, call, ret, inputs>>

(* ------------------------------ on_pause ------------------------------- *)
on_pause ==
    /\ inputs < MaxInputs
    /\ inputs' = inputs + 1
    /\ mainpc = "idle" /\ pause_sens
    /\ IF is_running /\ ~is_paused
       THEN /\ is_paused' = TRUE
            /\ keys_checked' = keys_checked + session_keys
            /\ threads' = Terminate(threads, process)
            /\ state_file' = save_current_state(current_block_index, keys_checked')
       ELSE /\ Len(threads) < MaxThreads
            /\ is_paused' = FALSE
            /\ threads' = Append(threads, NewThread)
            /\ UNCHANGED <<keys_checked, state_file>>
    /\ UNCHANGED <<cfg, block_mgr, pool_scanned, my_scanned, is_running, process, current_block,
                   current_block_index, session_keys, matches_found, retry_count, start_sens,
                   pause_sens, idleq, timers, mainpc, collided, matched, errored, call, ret>>

(* ------------------------------- on_stop ------------------------------- *)
on_stop ==
    /\ inputs < MaxInputs
    /\ inputs' = inputs + 1
    /\ mainpc = "idle" /\ pause_sens
    /\ is_running' = FALSE
    /\ is_paused' = FALSE
    /\ threads' = Settle(Terminate(threads, process), 0)
    /\ process' = 0
    /\ state_file' = save_current_state(current_block_index, keys_checked)
    /\ start_sens' = TRUE
    /\ pause_sens' = FALSE
    /\ UNCHANGED <<cfg, block_mgr, pool_scanned, my_scanned, current_block, current_block_index,
                   keys_checked, session_keys, matches_found, retry_count, idleq, timers,
                   mainpc, collided, matched, errored, call, ret>>


(* -------------------------- on_block_completed ------------------------- *)
\* Lines 2717-2744 and, when no block is left, the call of on_stop (2767-2769).
\* With a current block left the handler goes on to terminate self.process
\* (on_block_completed_terminate); the reader thread that find_next_block has
\* just started runs concurrently with that.
on_block_completed ==
    /\ mainpc = "idle" /\ idleq # <<>> /\ Head(idleq) = "on_block_completed"
    /\ idleq' = Tail(idleq)
    /\ retry_count' = 0
    /\ IF current_block = None
       THEN UNCHANGED <<my_scanned, current_block, current_block_index, keys_checked, threads,
                        timers, is_running, is_paused, process, state_file, start_sens,
                        pause_sens, mainpc>>
       ELSE LET total_keys_checked == keys_checked + session_keys
                mine == add_my_block(my_scanned, current_block[1], current_block[2],
                                     total_keys_checked)
                mgr == block_mgr[1]
            IN  \E r \in {find_next_block(mgr, pool_scanned, mine, cfg.pat,
                                            current_block_index + 1)} :
                LET blk == FnbBlock(r, mgr, current_block) IN
                /\ FnbRoom(r, 0)
                /\ my_scanned' = mine
                /\ current_block' = blk
                /\ current_block_index' = r.index
                /\ keys_checked' = FnbKeys(r, 0)
                /\ timers' = FnbTimers(r, timers)
                /\ IF blk # None
                   THEN /\ threads' = FnbThreads(r, threads)
                        /\ mainpc' = "obc_terminate"
                        /\ UNCHANGED <<is_running, is_paused, process, state_file, start_sens,
                                       pause_sens>>
                   ELSE \* on_stop(None)
                        /\ is_running' = FALSE
                        /\ is_paused' = FALSE
                        /\ threads' = Settle(Terminate(threads, process), 0)
                        /\ process' = 0
                        /\ state_file' = save_current_state(current_block_index', keys_checked')
                        /\ start_sens' = TRUE
                        /\ pause_sens' = FALSE
                        /\ mainpc' = "idle"
    /\ UNCHANGED <<cfg, block_mgr, pool_scanned, session_keys, matches_found, collided,
                   matched, errored, call, ret, inputs>>

\* Lines 2746-2762: terminate and wait for self.process, whichever process that
\* is by now, and clear it.  time.sleep(2) then raises NameError (the module
\* never imports time), which ends the callback before line 2765 starts a thread.
on_block_completed_terminate ==
    /\ mainpc = "obc_terminate"
    /\ threads' = Settle(Terminate(threads, process), 0)
    /\ process' = 0
    /\ mainpc' = "idle"
    /\ UNCHANGED <<cfg, block_mgr, pool_scanned, my_scanned, state_file, is_running, is_paused,
                   current_block, current_block_index, keys_checked, session_keys,
                   matches_found, retry_count, start_sens, pause_sens, idleq, timers, collided,
                   matched, errored, call, ret, inputs>>

(* ------------------------ handle_block_collision ----------------------- *)
handle_block_collision ==
    /\ mainpc = "idle" /\ idleq # <<>> /\ Head(idleq) = "handle_block_collision"
    /\ idleq' = Tail(idleq)
    /\ LET mgr == block_mgr[1]
           stopped == Terminate(threads, process)
       IN  \E r \in {find_next_block(mgr, pool_scanned, my_scanned, cfg.pat,
                                       current_block_index + 1)} :
           LET blk == FnbBlock(r, mgr, current_block) IN
           /\ FnbRoom(r, IF blk # None THEN 1 ELSE 0)
           /\ process' = 0
           /\ current_block' = blk
           /\ current_block_index' = r.index
           /\ keys_checked' = FnbKeys(r, 0)
           /\ timers' = FnbTimers(r, timers)
           /\ IF blk # None
              THEN \* the thread of find_next_block, then the thread of line 2077
                   /\ threads' = Settle(Append(FnbThreads(r, stopped), NewThread), 0)
                   /\ UNCHANGED <<is_running, is_paused, state_file, start_sens, pause_sens>>
              ELSE \* on_stop(None)
                   /\ threads' = Settle(stopped, 0)
                   /\ is_running' = FALSE
                   /\ is_paused' = FALSE
                   /\ state_file' = save_current_state(current_block_index', keys_checked')
                   /\ start_sens' = TRUE
                   /\ pause_sens' = FALSE
    /\ UNCHANGED <<cfg, block_mgr, pool_scanned, my_scanned, session_keys, matches_found,
                   retry_count, mainpc, collided, matched, errored, call, ret, inputs>>

(* ------------------------------ scrape_pool ---------------------------- *)
\* scrape_pool terminating the worker itself when it detects the collision
scrape_pool_terminating(doc) ==
    /\ inputs < MaxInputs
    /\ inputs' = inputs + 1
    /\ doc # <<>>
    /\ LET collision_detected ==
               /\ current_block # None /\ is_running
               /\ \E i \in 1..Len(doc) : doc[i] = current_block
       IN  /\ pool_scanned' = add_pool_blocks(pool_scanned, doc).table
           /\ collided' = IF collision_detected THEN collided \cup {current_block}
                          ELSE collided
           /\ threads' = IF collision_detected THEN Settle(Terminate(threads, process), 0)
                         ELSE threads
           /\ process' = IF collision_detected THEN 0 ELSE process
    /\ UNCHANGED <<cfg, block_mgr, my_scanned, state_file, is_running, is_paused,
                   current_block, current_block_index, keys_checked, session_keys,
                   matches_found, retry_count, start_sens, pause_sens, idleq, timers, mainpc,
                   matched, errored, call, ret>>

\* scrape_pool with scanned_blocks = doc.  It runs as an idle callback of the
\* main loop (scraper_loop, line 1973) or in a thread of its own
\* (on_manual_scrape, line 2085), so at any moment, also while the main loop is
\* inside a handler.  The idle callback changes nothing before it runs, so its
\* place in the queue adds no behaviour to those of the thread.
scrape_pool(doc) ==
    /\ inputs < MaxInputs
    /\ inputs' = inputs + 1
    /\ doc # <<>>
    /\ LET collision_detected ==
               /\ current_block # None /\ is_running
               /\ \E i \in 1..Len(doc) : doc[i] = current_block
       IN  /\ collision_detected => QueueRoom
           /\ pool_scanned' = add_pool_blocks(pool_scanned, doc).table
           /\ idleq' = IF collision_detected
                       THEN Append(idleq, "handle_block_collision") ELSE idleq
           /\ collided' = IF collision_detected THEN collided \cup {current_block}
                          ELSE collided
    /\ UNCHANGED <<cfg, block_mgr, my_scanned, state_file, is_running, is_paused, process,
                   current_block, current_block_index, keys_checked, session_keys,
                   matches_found, retry_count, start_sens, pause_sens, timers, mainpc, threads,
                   matched, errored, call, ret>>

\* scanned_blocks is empty (no codes in the page, or the fetch failed): lines
\* 2051-2052, nothing changes
scrape_pool_empty ==
    UNCHANGED vars

(* --------------------------- run_block_search -------------------------- *)
\* the --range argument of build_keyhunt_command: <<actual_start, block_end>>
build_keyhunt_command(block_start, block_end, keys) ==
    LET actual_start == IF keys > 0 THEN Min(block_start + keys, block_end) ELSE block_start
    IN  <<actual_start, block_end>>

\* the lines a worker prints: informational, error marker, match marker, "T: n"
Lines(c) == {[kind |-> k, n |-> 0] : k \in {"info", "error", "match"}}
            \cup {[kind |-> "keys", n |-> n] : n \in KeyCounts(c)}

ThreadIds == 1..Len(threads)

\* Lines 2554-2577: the thread starts, Popen succeeds and the for loop takes
\* the stdout of the new process (the statement after the Popen).  The process
\* gets the id of the thread that spawned it.
run_block_search_start(t) ==
    /\ threads[t].pc = "start"
    /\ IF current_block = None
       THEN /\ threads' = Return(threads, t)
            /\ UNCHANGED <<session_keys, process>>
       ELSE /\ session_keys' = 0
            /\ process' = t
            /\ threads' = Settle([threads EXCEPT ![t].pc = "loop",
                                          ![t].range = build_keyhunt_command(
                                                current_block[1], current_block[2], keys_checked),
                                          ![t].pstate = "run"], t)
    /\ UNCHANGED <<cfg, block_mgr, pool_scanned, my_scanned, state_file, is_running, is_paused,
                   current_block, current_block_index, keys_checked, matches_found,
                   retry_count, start_sens, pause_sens, idleq, timers, mainpc, collided,
                   matched, errored, call, ret, inputs>>

\* Popen raises (the worker cannot be launched): the handler of line 2713
run_block_search_launch_fails(t) ==
    /\ inputs < MaxInputs
    /\ inputs' = inputs + 1
    /\ threads[t].pc = "start"
    /\ current_block # None
    /\ session_keys' = 0
    /\ is_running' = FALSE
    /\ threads' = Return(threads, t)
    /\ UNCHANGED <<cfg, block_mgr, pool_scanned, my_scanned, state_file, is_paused, process,
                   current_block, current_block_index, keys_checked, matches_found,
                   retry_count, start_sens, pause_sens, idleq, timers, mainpc, collided,
                   matched, errored, call, ret>>

\* One iteration of the for loop (2577-2656) on a line the worker of thread t
\* printed.
run_block_search_line(t, line) ==
    /\ inputs < MaxInputs
    /\ inputs' = inputs + 1
    /\ threads[t].pc = "loop"
    /\ threads[t].pstate = "run"
    /\ IF ~is_running \/ is_paused
       THEN /\ threads' = [threads EXCEPT ![t].pc = "wait"]
            /\ UNCHANGED <<is_running, session_keys, matches_found, matched, errored,
                           call, ret>>
       ELSE /\ line.kind = "match" => matches_found < MaxMatches
            /\ \E lines_read \in LinesAfter(threads[t].lines) :
                 LET counted == [threads EXCEPT ![t].lines = lines_read]
                     total_keys == keys_checked + line.n
                     complete == /\ line.kind = "keys" /\ current_block # None
                                 /\ total_keys >= current_block[2] - current_block[1] + 1
                 IN  /\ matches_found' = IF line.kind = "match" THEN matches_found + 1
                                         ELSE matches_found
                     /\ matched' = IF line.kind = "match" THEN matched \cup {current_block}
                                   ELSE matched
                     /\ errored' = IF line.kind = "error"
                                   THEN errored \cup {threads[t].range[2]} ELSE errored
                     /\ UNCHANGED <<call, ret>>
                     /\ session_keys' = IF line.kind = "keys" THEN line.n ELSE session_keys
                     /\ is_running' = IF line.kind = "match" \/ complete THEN FALSE
                                      ELSE is_running
                     /\ threads' = LET flagged == IF line.kind = "error"
                                                  THEN [counted EXCEPT ![t].err = TRUE]
                                                  ELSE counted
                                   IN  IF line.kind = "match" \/ complete
                                       THEN Settle(Terminate(flagged, process), process)
                                       ELSE flagged
    /\ UNCHANGED <<cfg, block_mgr, pool_scanned, my_scanned, state_file, is_paused, process,
                   current_block, current_block_index, keys_checked, retry_count, start_sens,
                   pause_sens, idleq, timers, mainpc, collided>>

\* readline returns '': the worker of thread t has ended
run_block_search_eof(t) ==
    /\ threads[t].pc = "loop"
    /\ threads[t].pstate = "dead"
    /\ threads' = [threads EXCEPT ![t].pc = "wait"]
    /\ UNCHANGED <<cfg, block_mgr, pool_scanned, my_scanned, state_file, is_running, is_paused,
                   process, current_block, current_block_index, keys_checked, session_keys,
                   matches_found, retry_count, start_sens, pause_sens, idleq, timers, mainpc,
                   collided, matched, errored, call, ret, inputs>>

\* Lines 2658-2711: the wait for self.process, whichever process that is by
\* now, returns (with its return code, or by the timeout while it still runs),
\* and the exit is judged.  In the retry branch time.sleep(3) raises NameError
\* (the module never imports time): the retry thread of line 2704 is never
\* started and the handler of line 2713 clears is_running.
run_block_search_judge(t) ==
    /\ threads[t].pc = "wait"
    /\ threads' = Return(threads, t)
    /\ LET exit_code == IF process # 0 /\ threads[process].pstate = "dead"
                        THEN threads[process].returncode
                        ELSE NO_EXIT_CODE
       IN  IF /\ ~is_paused /\ ~threads[t].err
              /\ exit_code \in {0, SIGTERM_CODE}
              /\ threads[t].lines >= min_lines
           THEN /\ QueueRoom
                /\ idleq' = Append(idleq, "on_block_completed")
                /\ UNCHANGED <<retry_count, is_running>>
           ELSE LET startup_failure == exit_code = NO_EXIT_CODE /\ threads[t].lines = 0
                    count == IF startup_failure /\ retry_count = -1 THEN 0 ELSE retry_count
                IN  /\ retry_count' = IF startup_failure /\ count < max_retries
                                      THEN count + 1 ELSE 0
                    /\ is_running' = FALSE
                    /\ UNCHANGED idleq
    /\ UNCHANGED <<cfg, block_mgr, pool_scanned, my_scanned, state_file, is_paused, process,
                   current_block, current_block_index, keys_checked, session_keys,
                   matches_found, start_sens, pause_sens, timers, mainpc, collided, matched, errored, call, ret,
                   inputs>>

(* ------------------------------ the worker ----------------------------- *)
\* the worker process ends by itself: 0 at the end of its range, 1 on a failure
worker_exit(t, code) ==
    /\ inputs < MaxInputs
    /\ inputs' = inputs + 1
    /\ threads[t].pstate = "run"
    /\ threads' = Settle([threads EXCEPT ![t].pstate = "dead", ![t].returncode = code,
                                          ![t].range = None], process)
    /\ UNCHANGED <<cfg, block_mgr, pool_scanned, my_scanned, state_file, is_running, is_paused,
                   process, current_block, current_block_index, keys_checked, session_keys,
                   matches_found, retry_count, start_sens, pause_sens, idleq, timers, mainpc,
                   collided, matched, errored, call, ret>>

(* -------------------------------- Next --------------------------------- *)
Next ==
    \/ on_start
    \/ on_pause
    \/ on_stop
    \/ find_next_block_timeout
    \/ on_block_completed
    \/ on_block_completed_terminate
    \/ handle_block_collision
    \/ \E doc \in PoolDocs(cfg) : scrape_pool(doc)
    \/ scrape_pool_empty
    \/ \E t \in ThreadIds : run_block_search_start(t)
    \/ \E t \in ThreadIds : run_block_search_launch_fails(t)
    \/ \E t \in ThreadIds : \E line \in Lines(cfg) : run_block_search_line(t, line)
    \/ \E t \in ThreadIds : run_block_search_eof(t)
    \/ \E t \in ThreadIds : run_block_search_judge(t)
    \/ \E t \in ThreadIds : \E code \in {0, 1} : worker_exit(t, code)

Spec == Init /\ [][Next]_vars

(* ---------------------- calls of BlockManager -------------------------- *)
\* The coordinator as constructed and never started: what the calls of the
\* library classes below leave alone.
Constructed ==
    /\ is_running = FALSE /\ is_paused = FALSE
    /\ process = 0
    /\ current_block = None /\ current_block_index = 0
    /\ keys_checked = 0 /\ session_keys = 0 /\ matches_found = 0
    /\ retry_count = -1
    /\ start_sens = TRUE /\ pause_sens = FALSE
    /\ idleq = <<>> /\ timers = 0 /\ mainpc = "idle"
    /\ threads = <<>>
    /\ collided = {} /\ matched = {} /\ errored = {}
    /\ state_file = None

coordinator == <<is_running, is_paused, process, current_block, current_block_index,
                 keys_checked, session_keys, matches_found, retry_count, start_sens,
                 pause_sens, idleq, timers, mainpc, threads, collided, matched, errored,
                 state_file>>

\* BlockManager(range_start, range_end, block_size) for every range and block
\* size within the bounds
Ranges ==
    {[range_start |-> s, range_end |-> e, block_size |-> b, pat |-> NoPattern] :
        s \in 1..MaxRangeStart, e \in 1..MaxRangeEnd, b \in 1..MaxBlockSize}

InitBlocks ==
    /\ cfg \in {c \in Ranges : c.range_start <= c.range_end}
    /\ block_mgr = <<CfgMgr(cfg)>>
    /\ pool_scanned = {} /\ my_scanned = {}
    /\ Constructed
    /\ inputs = 0
    /\ call = NoCall /\ ret = None

get_block_call(block_index) ==
    /\ call' = [op |-> "get_block", block_index |-> block_index]
    /\ ret' = get_block(block_mgr[1], block_index)
    /\ UNCHANGED <<cfg, block_mgr, pool_scanned, my_scanned, coordinator, inputs>>

NextBlocks ==
    \E block_index \in 0..(block_mgr[1].total_blocks - 1) : get_block_call(block_index)

SpecBlocks == InitBlocks /\ [][NextBlocks]_vars

(* ---------------------- calls of ScanDatabase -------------------------- *)
Boundaries == {15 * k : k \in 1..MaxBoundary}

Blocks == {b \in Boundaries \X Boundaries : b[1] <= b[2]}

\* the lists of blocks handed to add_pool_blocks: one block or two
BlockLists == {<<a>> : a \in Blocks} \cup {<<a, b>> : a, b \in Blocks}

\* a new database (_create_tables on an empty file), or the database of an
\* earlier session that completed the block [15, 30]
InitLedger ==
    /\ cfg = CfgPlain
    /\ block_mgr = None
    /\ pool_scanned = {}
    /\ my_scanned \in {{}, {MyRow(15, 30, MaxKeys)}}
    /\ Constructed
    /\ inputs = 0
    /\ call = NoCall /\ ret = None

add_pool_blocks_call(blocks) ==
    /\ inputs < MaxCalls
    /\ inputs' = inputs + 1
    /\ call' = [op |-> "add_pool_blocks", blocks |-> blocks]
    /\ LET r == add_pool_blocks(pool_scanned, blocks)
       IN  /\ pool_scanned' = r.table
           /\ ret' = <<r.added_count, r.duplicate_count>>
    /\ UNCHANGED <<cfg, block_mgr, my_scanned, coordinator>>

add_my_block_call(block, keys) ==
    /\ inputs < MaxCalls
    /\ inputs' = inputs + 1
    /\ call' = [op |-> "add_my_block", block |-> block, keys_checked |-> keys]
    /\ my_scanned' = add_my_block(my_scanned, block[1], block[2], keys)
    /\ ret' = None
    /\ UNCHANGED <<cfg, block_mgr, pool_scanned, coordinator>>

is_block_scanned_call(block) ==
    /\ inputs < MaxCalls
    /\ inputs' = inputs + 1
    /\ call' = [op |-> "is_block_scanned", block |-> block]
    /\ ret' = is_block_scanned(pool_scanned, my_scanned, block[1], block[2])
    /\ UNCHANGED <<cfg, block_mgr, pool_scanned, my_scanned, coordinator>>

NextLedger ==
    \/ \E blocks \in BlockLists : add_pool_blocks_call(blocks)
    \/ \E block \in Blocks : \E keys \in 0..MaxKeys : add_my_block_call(block, keys)
    \/ \E block \in Blocks : is_block_scanned_call(block)

SpecLedger == InitLedger /\ [][NextLedger]_vars

(* ----------------------- calls of PoolScraper -------------------------- *)
\* Text is a sequence of characters: 0..15 are the hex digits '0'..'F', CharX
\* is 'X' and CharCheck is the check mark of a completed challenge.
CharX == 16
CharCheck == 17

IsHex(c) == c \in 0..15

\* int(text, 16) of a text too long for a machine integer: the number is kept
\* as its hex digits without leading zeros
RECURSIVE IntBase16(_)
IntBase16(text) ==
    IF Len(text) > 1 /\ Head(text) = 0 THEN IntBase16(Tail(text)) ELSE text

\* '3000000000' and '3FFFFFFFFF'
LowTail  == <<3>> \o [i \in 1..9 |-> 0]
HighTail == <<3>> \o [i \in 1..9 |-> 15]

\* _decode_range_id yielding the same block for every digit
decode_range_id_one_digit(range_id) ==
    LET hex_prefix == SubSeq(range_id, 1, 2)
        hex_suffix == SubSeq(range_id, 4, Len(range_id))
    IN  [x \in 1..16 |->
            <<IntBase16(hex_prefix \o <<0>> \o hex_suffix \o LowTail),
              IntBase16(hex_prefix \o <<0>> \o hex_suffix \o HighTail)>>]

\* _decode_range_id: the blocks in the order of the digits '0'..'F'
decode_range_id(range_id) ==
    LET hex_prefix == SubSeq(range_id, 1, 2)
        hex_suffix == SubSeq(range_id, 4, Len(range_id))
    IN  [x \in 1..16 |->
            <<IntBase16(hex_prefix \o <<x - 1>> \o hex_suffix \o LowTail),
              IntBase16(hex_prefix \o <<x - 1>> \o hex_suffix \o HighTail)>>]

\* _decode_challenge enumerating the second digit only
decode_challenge_one_digit(challenge_prefix) ==
    [k \in 1..256 |->
        LET x2 == (k - 1) % 16
        IN  <<IntBase16(challenge_prefix \o <<0, x2>> \o <<0, 0, 0>> \o LowTail),
              IntBase16(challenge_prefix \o <<0, x2>> \o <<0, 0, 0>> \o HighTail)>>]

\* _decode_challenge: the blocks in the order of the pairs '00'..'FF'
decode_challenge(challenge_prefix) ==
    [k \in 1..256 |->
        LET x1 == (k - 1) \div 16
            x2 == (k - 1) % 16
        IN  <<IntBase16(challenge_prefix \o <<x1, x2>> \o <<0, 0, 0>> \o LowTail),
              IntBase16(challenge_prefix \o <<x1, x2>> \o <<0, 0, 0>> \o HighTail)>>]

\* A document is a sequence of tokens (the text between white space).
\* [0-9A-F]{2}X[0-9A-F]{4,5} on a token of that shape
range_pattern(token) ==
    /\ Len(token) \in {7, 8}
    /\ IsHex(token[1]) /\ IsHex(token[2]) /\ token[3] = CharX
    /\ \A i \in 4..Len(token) : IsHex(token[i])

\* the check mark, ([0-9A-F]{2}) and XXXXX
challenge_pattern(token) ==
    /\ Len(token) = 8
    /\ token[1] = CharCheck /\ IsHex(token[2]) /\ IsHex(token[3])
    /\ \A i \in 4..8 : token[i] = CharX

\* the lists a set can be iterated in
Orderings(S) ==
    {o \in [1..Cardinality(S) -> S] : \A i, j \in 1..Cardinality(S) : o[i] = o[j] => i = j}

\* scanned_blocks.extend(blocks) for every list of lists[1..n]
RECURSIVE extend(_, _)
extend(lists, n) ==
    IF n = 0 THEN <<>> ELSE extend(lists, n - 1) \o lists[n]

\* scrape_scanned_ranges decoding every match, without the two set() calls
scrape_scanned_ranges_every_match(document) ==
    LET matches == SelectSeq(document, range_pattern)
        challenge_matches == SelectSeq(document, challenge_pattern)
    IN  {extend([i \in 1..Len(matches) |-> decode_range_id(matches[i])], Len(matches))
         \o extend([i \in 1..Len(challenge_matches) |->
                       decode_challenge(SubSeq(challenge_matches[i], 2, 3))],
                   Len(challenge_matches))}

\* scrape_scanned_ranges on a fetched document: the lists it can return, one
\* for every order in which the two sets are iterated
scrape_scanned_ranges(document) ==
    LET matches == SelectSeq(document, range_pattern)
        challenge_found == SelectSeq(document, challenge_pattern)
        challenge_matches == [i \in 1..Len(challenge_found) |-> SubSeq(challenge_found[i], 2, 3)]
        unique_ranges == {matches[i] : i \in 1..Len(matches)}
        unique_challenges == {challenge_matches[i] : i \in 1..Len(challenge_matches)}
    IN  {extend([i \in DOMAIN o1 |-> decode_range_id(o1[i])], Len(o1))
         \o extend([i \in DOMAIN o2 |-> decode_challenge(o2[i])], Len(o2)) :
            o1 \in Orderings(unique_ranges), o2 \in Orderings(unique_challenges)}

\* the tokens of the documents: 41XA26C0, 50XA1EC, 7FX3000, the completed
\* challenges 7F and 0A, and a word that is no code
Tokens ==
    {<<4, 1, CharX, 10, 2, 6, 12, 0>>,
     <<5, 0, CharX, 10, 1, 14, 12>>,
     <<7, 15, CharX, 3, 0, 0, 0>>,
     <<CharCheck, 7, 15, CharX, CharX, CharX, CharX, CharX>>,
     <<CharCheck, 0, 10, CharX, CharX, CharX, CharX, CharX>>,
     <<5, 0, CharX, 10>>}

Documents == UNION {[1..n -> Tokens] : n \in 0..MaxTokens}

\* the codes and prefixes the two decoders are called on: those of the tokens,
\* and the lowest, the highest and a middle digit in every place
RangeIds ==
    {t \in Tokens : range_pattern(t)}
    \cup {<<p1, p2, CharX>> \o suffix :
             p1 \in {0, 4, 15}, p2 \in {0, 4, 15},
             suffix \in {<<0, 0, 0, 0>>, <<10, 1, 14, 12>>, <<15, 15, 15, 15, 15>>}}

ChallengePrefixes ==
    {SubSeq(t, 2, 3) : t \in {t \in Tokens : challenge_pattern(t)}}
    \cup {<<p1, p2>> : p1 \in {0, 7, 15}, p2 \in {0, 7, 15}}

InitScraper ==
    /\ cfg = CfgPlain
    /\ block_mgr = None
    /\ pool_scanned = {} /\ my_scanned = {}
    /\ Constructed
    /\ inputs = 0
    /\ call = NoCall /\ ret = None

\* one call is made in a behaviour: the functions keep no state
decode_range_id_call(range_id) ==
    /\ call = NoCall
    /\ call' = [op |-> "_decode_range_id", range_id |-> range_id]
    /\ ret' = decode_range_id(range_id)
    /\ UNCHANGED <<cfg, block_mgr, pool_scanned, my_scanned, coordinator, inputs>>

decode_challenge_call(challenge_prefix) ==
    /\ call = NoCall
    /\ call' = [op |-> "_decode_challenge", challenge_prefix |-> challenge_prefix]
    /\ ret' = decode_challenge(challenge_prefix)
    /\ UNCHANGED <<cfg, block_mgr, pool_scanned, my_scanned, coordinator, inputs>>

scrape_scanned_ranges_call(document) ==
    /\ call = NoCall
    /\ call' = [op |-> "scrape_scanned_ranges", document |-> document]
    /\ ret' \in scrape_scanned_ranges(document)
    /\ UNCHANGED <<cfg, block_mgr, pool_scanned, my_scanned, coordinator, inputs>>

NextScraper ==
    \/ \E range_id \in RangeIds : decode_range_id_call(range_id)
    \/ \E challenge_prefix \in ChallengePrefixes : decode_challenge_call(challenge_prefix)
    \/ \E document \in Documents : scrape_scanned_ranges_call(document)

SpecScraper == InitScraper /\ [][NextScraper]_vars

(* ------------------------- terms used by the claims -------------------- *)
\* int(text, 16) of a stored boundary
RECURSIVE FromHex(_)
FromHex(h) == IF h = <<>> THEN 0
              ELSE FromHex(SubSeq(h, 1, Len(h) - 1)) * 16 + h[Len(h)]

\* the table holds a row with exactly the boundaries of block
HasRow(table, block) ==
    \E r \in table : r.block_start = ToHex(block[1]) /\ r.block_end = ToHex(block[2])

\* the worker processes that were started and have not ended
LiveWorkers(ths) == {t \in DOMAIN ths : ths[t].pstate = "run"}

\* block j is neither claimed in the ledger (pool, mine) nor flagged by an
\* enabled pattern
Eligible(pool, mine, j) ==
    LET block == get_block(CfgMgr(cfg), j)
    IN  /\ ~HasRow(pool, block) /\ ~HasRow(mine, block)
        /\ ~should_skip_block_by_pattern(cfg.pat, block[1], block[2])

\* The index at which the step calls find_next_block; -1 when the step is no
\* call of find_next_block.
SelectionStart ==
    IF on_start /\ ~is_running /\ cfg.block_size # 0 THEN current_block_index
    ELSE IF find_next_block_timeout THEN current_block_index
    ELSE IF on_block_completed /\ current_block # None THEN current_block_index + 1
    ELSE IF handle_block_collision THEN current_block_index + 1
    ELSE -1

(* -------------------------------- C1 ----------------------------------- *)
\* C1: when a selection starts at index k and some block at an index >= k is
\* eligible (not exactly claimed by Pool or Mine, not flagged by an enabled
\* pattern), let j be the smallest such index.  If j is among the
\* checks_per_batch indices one call examines, the call leaves
\* current_block_index = j and current_block = get_block(j) and creates the
\* reader thread that hands that block to the worker; every index in [k, j)
\* was skipped.  Otherwise the call skips checks_per_batch indices, hands over
\* nothing and leaves a timeout that goes on from k + checks_per_batch.
C1_SelectsLowestEligible ==
    [][LET k == SelectionStart
           E == {j \in k..(CfgMgr(cfg).total_blocks - 1) :
                    Eligible(pool_scanned', my_scanned', j)}
       IN  (k >= 0 /\ E # {}) =>
              LET j == CHOOSE x \in E : \A y \in E : x <= y
              IN  IF j < k + checks_per_batch
                  THEN /\ current_block_index' = j
                       /\ current_block' = get_block(CfgMgr(cfg), j)
                       /\ keys_checked' = 0
                       /\ Len(threads') > Len(threads)
                       /\ threads'[Len(threads')].pc = "start"
                  ELSE /\ current_block_index' = k + checks_per_batch
                       /\ current_block' = current_block
                       /\ timers' > 0
      ]_vars

\* The example of C1: range 0x400..0x4FF in blocks of 0x40, block 1 recorded as
\* Mine, selection from index 1 (one press of start): block 2 = [0x480, 0x4BF]
\* is the current block and a reader thread waits to hand it to the worker.
C1_Witness ==
    /\ cfg = CfgPlain /\ inputs = 1
    /\ state_file = <<[current_block_index |-> 1, keys_checked |-> 32]>>
    /\ HasRow(my_scanned, <<1088, 1151>>)
    /\ current_block_index = 2 /\ current_block = <<1152, 1215>>
    /\ Len(threads) = 1 /\ threads[1].pc = "start"

(* -------------------------------- C2 ----------------------------------- *)
\* C2 (as stated): once scrape_pool has detected a collision for block b, no
\* Mine row with the boundaries of b is written.
C2_NoMineForCollidedBlock ==
    [][\A b \in collided : ~HasRow(my_scanned, b) => ~HasRow(my_scanned', b)]_vars

(* -------------------------------- C3 ----------------------------------- *)
\* C3 (as stated): in every reachable state at most one worker process is
\* started and not yet ended.
C3_AtMostOneWorker ==
    Cardinality(LiveWorkers(threads)) <= 1

(* -------------------------------- C4 ----------------------------------- *)
\* C4 (as stated), for sessions without a match marker: every Mine row that is
\* written holds a checked-key count of at least the exact key count
\* end - start + 1 of its block.
C4_MineOnlyWhenComplete ==
    [][matched' = {} =>
          \A r \in my_scanned' \ my_scanned :
              r.keys_checked >= FromHex(r.block_end) - FromHex(r.block_start) + 1
      ]_vars

(* -------------------------------- C5 ----------------------------------- *)
\* C5 (as stated): when on_block_completed handles the completion of the block
\* at index i, the checked-key count having reached the size of the block and
\* no match marker having been read, and a next block is selected, then the
\* Mine row of the completed block is written, the index has moved past i,
\* keys_checked is 0 and the coordinator is Searching the next block (running,
\* not paused).
C5_CompletionSearchesNext ==
    [][(/\ on_block_completed /\ current_block # None /\ matched = {}
        /\ keys_checked + session_keys >= current_block[2] - current_block[1] + 1
        /\ current_block' # None /\ current_block' # current_block) =>
          /\ HasRow(my_scanned', current_block)
          /\ current_block_index' >= current_block_index + 1
          /\ keys_checked' = 0
          /\ is_running' /\ ~is_paused'
      ]_vars

(* -------------------------------- C6 ----------------------------------- *)
\* C6 (as stated): on start with the saved progress (index i, keys k > 0)
\* loaded and block i still eligible, block i becomes the current block and
\* keys_checked stays k, so that the range of the worker begins at start + k.
C6_StartKeepsSavedKeys ==
    [][(/\ on_start /\ ~is_running
        /\ state_file = save_current_state(current_block_index, keys_checked)
        /\ keys_checked > 0
        /\ current_block_index < CfgMgr(cfg).total_blocks
        /\ Eligible(pool_scanned, my_scanned, current_block_index)) =>
          /\ current_block' = get_block(CfgMgr(cfg), current_block_index)
          /\ keys_checked' = keys_checked
      ]_vars

(* -------------------------------- C7 ----------------------------------- *)
\* C7: a press of pause while running and not paused sets is_paused, makes
\* keys_checked its old value plus session_keys, writes the progress file with
\* that folded value and the current block index, terminates self.process, and
\* changes neither the block index nor the table my_scanned.
C7_PauseFoldsAndSaves ==
    [][(on_pause /\ is_running /\ ~is_paused) =>
          /\ is_paused'
          /\ keys_checked' = keys_checked + session_keys
          /\ state_file' = <<[current_block_index |-> current_block_index,
                              keys_checked |-> keys_checked + session_keys]>>
          /\ (process # 0 => threads'[process].pstate # "run")
          /\ current_block_index' = current_block_index
          /\ my_scanned' = my_scanned
      ]_vars

\* Paused halfway through block 0 of 0x400..0x4FF: the worker had reported 32
\* keys, they are folded and saved, the worker is terminated, nothing recorded.
C7_Witness ==
    /\ cfg = CfgPlain /\ is_running /\ is_paused
    /\ current_block_index = 0 /\ session_keys = 32 /\ keys_checked = 32
    /\ state_file = <<[current_block_index |-> 0, keys_checked |-> 32]>>
    /\ process # 0 /\ threads[process].pstate = "dead"
    /\ threads[process].returncode = SIGTERM_CODE
    /\ my_scanned = {}

(* -------------------------------- C8 ----------------------------------- *)
\* C8 (as stated): a press of resume while paused, the pause having terminated
\* the worker of the block, leaves the coordinator Searching again (running,
\* not paused) on the same block index, with a new reader thread for it.
C8_ResumeSearchesAgain ==
    [][(/\ on_pause /\ is_paused
        /\ process # 0 /\ threads[process].returncode = SIGTERM_CODE) =>
          /\ is_running' /\ ~is_paused'
          /\ current_block_index' = current_block_index
          /\ Len(threads') = Len(threads) + 1
      ]_vars

(* -------------------------------- C9 ----------------------------------- *)
\* C9 (as stated): in the state on_stop leaves (start button sensitive, stop
\* button not, progress file written) no worker process runs, the coordinator
\* is not running, and the progress file holds the current block index.
C9_StoppedHasNoWorker ==
    (start_sens /\ ~pause_sens /\ block_mgr # None /\ state_file # None) =>
        /\ LiveWorkers(threads) = {}
        /\ ~is_running /\ ~is_paused

(* -------------------------------- C10 ---------------------------------- *)
\* C10 (as stated), for sessions without a pool collision and with no
\* continuation of the selection pending: after a match marker, and until the
\* operator presses start again, the index is not
\* advanced, no reader thread is created except by a press of the pause
\* button, and no Mine row is written unless it holds the full key count of
\* its block.
C10_MatchIsTerminal ==
    [][(matched # {} /\ matched' # {} /\ collided' = {} /\ timers = 0) =>
          /\ current_block_index' = current_block_index
          /\ (Len(threads') = Len(threads) \/ on_pause)
          /\ \A r \in my_scanned' \ my_scanned :
                r.keys_checked >= FromHex(r.block_end) - FromHex(r.block_start) + 1
      ]_vars

(* -------------------------------- C11 ---------------------------------- *)
\* C11 (as stated): once a worker has printed an error marker while searching
\* a block the pool has not claimed, and until the operator presses start
\* again, with no continuation of the selection pending, no Mine row is written for that block and the index is
\* not moved while that block is the current block.
C11_ErrorIsFatal ==
    [][\A e \in errored \cap errored' :
          (timers = 0 /\ collided' = {}) =>
              /\ \A r \in my_scanned' \ my_scanned : FromHex(r.block_end) # e
              /\ (current_block # None /\ current_block[2] = e)
                    => current_block_index' = current_block_index
      ]_vars

(* -------------------------------- C12 ---------------------------------- *)
\* C12 (as stated): when a reader judges a worker that ended by itself without
\* printing a line, the coordinator running and not paused and fewer than
\* max_retries retries made, a reader thread is started again for the same
\* block and the coordinator keeps running.
C12_StartupFailureRetried ==
    [][\A t \in ThreadIds :
          (/\ run_block_search_judge(t)
           /\ process = t /\ threads[t].pstate = "dead"
           /\ threads[t].returncode \in {0, 1}
           /\ threads[t].lines = 0
           /\ is_running /\ ~is_paused
           /\ retry_count < max_retries) =>
              /\ Len(threads') = Len(threads) + 1
              /\ is_running'
              /\ current_block' = current_block
      ]_vars

(* -------------------------------- C13 ---------------------------------- *)
\* ceil(n / b) for n >= 1, b >= 1, by its definition
CeilDiv(n, b) == CHOOSE k \in 1..n : (k - 1) * b < n /\ n <= k * b

\* C13: for a BlockManager on [s, e] with s <= e and block size b >= 1,
\* total_blocks is ceil((e - s + 1) / b); the blocks 0 .. total_blocks - 1 start
\* at s, end at e, each begins one past the end of the one before, each has
\* between 1 and b keys and all but the last exactly b; every key of [s, e] lies
\* in exactly one block and no block leaves [s, e]; the block a call of
\* get_block returned is the block of its index.
C13_BlocksPartitionRange ==
    LET mgr   == block_mgr[1]
        first == mgr.range_start
        last  == mgr.range_end
        total == mgr.total_blocks
        blocks == [i \in 0..(total - 1) |-> get_block(mgr, i)]
        keys(i) == blocks[i][2] - blocks[i][1] + 1
    IN  /\ total = CeilDiv(last - first + 1, mgr.block_size)
        /\ blocks[0][1] = first
        /\ blocks[total - 1][2] = last
        /\ \A i \in 0..(total - 1) :
              /\ 1 <= keys(i) /\ keys(i) <= mgr.block_size
              /\ i < total - 1 => /\ keys(i) = mgr.block_size
                                  /\ blocks[i + 1][1] = blocks[i][2] + 1
              /\ first <= blocks[i][1] /\ blocks[i][2] <= last
        /\ \A k \in first..last :
              Cardinality({i \in 0..(total - 1) : blocks[i][1] <= k /\ k <= blocks[i][2]}) = 1
        /\ call.op = "get_block" =>
              /\ ret[1] = first + call.block_index * mgr.block_size
              /\ ret[2] <= last
              /\ ret[2] - ret[1] + 1 <= mgr.block_size

\* the last block of [2, 12] in blocks of 4 is the three keys [10, 12]
C13_Witness ==
    /\ cfg.range_start = 2 /\ cfg.range_end = 12 /\ cfg.block_size = 4
    /\ call.op = "get_block" /\ call.block_index = 2
    /\ ret = <<10, 12>>

(* -------------------------------- C14 ---------------------------------- *)
\* the rows of a table as pairs of numbers
Stored(table) == {<<FromHex(r.block_start), FromHex(r.block_end)>> : r \in table}

\* C14: a call of is_block_scanned reports "pool" exactly when the pool table
\* holds a record with the start and the end of the block, "me" exactly when the
\* pool table holds none and the table of my blocks holds one, and not scanned
\* otherwise, whatever records overlap the block or share one boundary with it.
C14_ExactBoundaryLookup ==
    [][call'.op = "is_block_scanned" =>
          LET in_pool == call'.block \in Stored(pool_scanned)
              in_mine == call'.block \in Stored(my_scanned)
          IN  /\ in_pool => ret' = <<TRUE, "pool">>
              /\ (~in_pool /\ in_mine) => ret' = <<TRUE, "me">>
              /\ (~in_pool /\ ~in_mine) => ret' = <<FALSE, "none">>
      ]_vars

\* [15, 30] is looked up and not reported while [15, 45], which shares its
\* start and contains it, is stored
C14_Witness ==
    /\ call.op = "is_block_scanned" /\ call.block = <<15, 30>>
    /\ Stored(pool_scanned) = {<<15, 45>>}
    /\ ret = <<FALSE, "none">>

(* -------------------------------- C15 ---------------------------------- *)
\* the blocks of a list, and whether their starts differ pairwise
BlockSet(blocks) == {blocks[i] : i \in 1..Len(blocks)}

DistinctStarts(blocks) ==
    \A i, j \in 1..Len(blocks) : blocks[i][1] = blocks[j][1] => i = j

LastWithStart(blocks, i) ==
    blocks[CHOOSE j \in 1..Len(blocks) :
              /\ blocks[j][1] = blocks[i][1]
              /\ \A k \in 1..Len(blocks) : blocks[k][1] = blocks[i][1] => k <= j]

\* C16: after every call of add_pool_blocks or add_my_block each table holds
\* at most one row per start; the pool row of a start just inserted has the end
\* given by the last block of the list with that start, the row of my blocks
\* has the end and the keys_checked of the call; the rows of the other starts,
\* and the other table, are as they were.
C16_UpsertByStart ==
    [][/\ \A r1, r2 \in pool_scanned' : r1.block_start = r2.block_start => r1 = r2
       /\ \A r1, r2 \in my_scanned' : r1.block_start = r2.block_start => r1 = r2
       /\ call'.op = "add_pool_blocks" =>
             LET blocks == call'.blocks
                 starts == {b[1] : b \in BlockSet(blocks)}
             IN  /\ \A i \in 1..Len(blocks) :
                        LastWithStart(blocks, i) \in Stored(pool_scanned')
                 /\ {r \in Stored(pool_scanned') : r[1] \notin starts}
                        = {r \in Stored(pool_scanned) : r[1] \notin starts}
                 /\ my_scanned' = my_scanned
       /\ call'.op = "add_my_block" =>
             /\ \E r \in my_scanned' :
                   /\ FromHex(r.block_start) = call'.block[1]
                   /\ FromHex(r.block_end) = call'.block[2]
                   /\ r.keys_checked = call'.keys_checked
             /\ {r \in my_scanned' : FromHex(r.block_start) # call'.block[1]}
                   = {r \in my_scanned : FromHex(r.block_start) # call'.block[1]}
             /\ pool_scanned' = pool_scanned
      ]_vars

\* [15, 30] and then [15, 45] in one list: the second replaces the first
C16_Witness ==
    /\ call.op = "add_pool_blocks" /\ call.blocks = <<<<15, 30>>, <<15, 45>>>>
    /\ Stored(pool_scanned) = {<<15, 45>>}
    /\ ret = <<1, 1>>

(* -------------------------------- C17 ---------------------------------- *)
\* the hex text of a decoded number, filled with zeros on the left to n digits
Padded(number, n) == [i \in 1..(n - Len(number)) |-> 0] \o number

\* a <= b for two numbers kept as hex digits without leading zeros
RECURSIVE DigitsLeq(_, _)
DigitsLeq(a, b) ==
    IF a = <<>> THEN TRUE
    ELSE IF Head(a) # Head(b) THEN Head(a) < Head(b)
         ELSE DigitsLeq(Tail(a), Tail(b))

NumberLeq(a, b) ==
    \/ Len(a) < Len(b)
    \/ Len(a) = Len(b) /\ DigitsLeq(a, b)

\* C17: _decode_range_id on a code PP X S returns exactly 16 blocks; the block
\* of digit d has the start whose hex text is PP d S 3000000000 and the end
\* whose hex text is PP d S 3FFFFFFFFF; the 16 starts differ pairwise and every
\* start is at most its end.
C17_SixteenBlocksPerCode ==
    call.op = "_decode_range_id" =>
        LET PP == SubSeq(call.range_id, 1, 2)
            S  == SubSeq(call.range_id, 4, Len(call.range_id))
            n  == Len(PP) + 1 + Len(S) + 10
        IN  /\ Len(ret) = 16
            /\ \A d \in 0..15 :
                  /\ Padded(ret[d + 1][1], n) = PP \o <<d>> \o S \o LowTail
                  /\ Padded(ret[d + 1][2], n) = PP \o <<d>> \o S \o HighTail
                  /\ NumberLeq(ret[d + 1][1], ret[d + 1][2])
            /\ \A i, j \in 1..16 : ret[i][1] = ret[j][1] => i = j

\* 50XA1EC: the block of digit F is 50FA1EC3000000000 .. 50FA1EC3FFFFFFFFF
C17_Witness ==
    /\ call.op = "_decode_range_id"
    /\ call.range_id = <<5, 0, CharX, 10, 1, 14, 12>>
    /\ ret[16] = <<<<5, 0, 15, 10, 1, 14, 12>> \o LowTail, <<5, 0, 15, 10, 1, 14, 12>> \o HighTail>>

(* -------------------------------- C18 ---------------------------------- *)
\* C18 (as stated): every boundary _decode_range_id returns for a code whose
\* prefix does not begin with the digit 0, of the shape PP X SSSS or
\* PP X SSSSS, is a number of 18 hex digits.
C18_EighteenHexDigits ==
    (call.op = "_decode_range_id" /\ call.range_id[1] # 0) =>
        \A i \in 1..Len(ret) : Len(ret[i][1]) = 18 /\ Len(ret[i][2]) = 18

(* -------------------------------- C19 ---------------------------------- *)
\* C19: _decode_challenge on a prefix PP returns exactly 256 blocks; the block
\* of the digits d1, d2 has the start whose hex text is PP d1 d2 0003000000000
\* and the end whose hex text is PP d1 d2 0003FFFFFFFFF; the 256 starts differ
\* pairwise.
C19_ChallengeBlocks ==
    call.op = "_decode_challenge" =>
        LET PP == call.challenge_prefix
            n  == Len(PP) + 2 + 13
        IN  /\ Len(ret) = 256
            /\ \A d1, d2 \in 0..15 :
                  LET block == ret[16 * d1 + d2 + 1]
                  IN  /\ Padded(block[1], n) = PP \o <<d1, d2, 0, 0, 0>> \o LowTail
                      /\ Padded(block[2], n) = PP \o <<d1, d2, 0, 0, 0>> \o HighTail
            /\ \A i, j \in 1..256 : ret[i][1] = ret[j][1] => i = j

\* challenge 7F: the block of the digits A, 5 is 7FA50003000000000 ..
\* 7FA50003FFFFFFFFF
C19_Witness ==
    /\ call.op = "_decode_challenge" /\ call.challenge_prefix = <<7, 15>>
    /\ ret[166] = <<<<7, 15, 10, 5, 0, 0, 0>> \o LowTail, <<7, 15, 10, 5, 0, 0, 0>> \o HighTail>>

(* -------------------------------- C20 ---------------------------------- *)
\* the distinct compact codes and the distinct challenge markers of a document
CodesOf(document) ==
    {document[i] : i \in {i \in 1..Len(document) :
                            document[i][1] # CharCheck /\ Len(document[i]) >= 7}}

MarkersOf(document) ==
    {document[i] : i \in {i \in 1..Len(document) : document[i][1] = CharCheck}}

\* C20: the list scrape_scanned_ranges returns for a document has exactly
\* 16 entries for every distinct compact code and 256 for every distinct
\* challenge marker of the document, however often a code occurs and also when
\* a block of a challenge is a block of a compact code as well; every block of
\* every code and marker is in the list.
C20_DedupByCodeOnly ==
    call.op = "scrape_scanned_ranges" =>
        /\ Len(ret) = 16 * Cardinality(CodesOf(call.document))
                      + 256 * Cardinality(MarkersOf(call.document))
        /\ \A code \in CodesOf(call.document) : \A d \in 0..15 :
              \E i \in 1..Len(ret) :
                  ret[i][1] = IntBase16(SubSeq(code, 1, 2) \o <<d>>
                                        \o SubSeq(code, 4, Len(code)) \o LowTail)
        /\ \A marker \in MarkersOf(call.document) : \A d1, d2 \in 0..15 :
              \E i \in 1..Len(ret) :
                  ret[i][1] = IntBase16(SubSeq(marker, 2, 3) \o <<d1, d2, 0, 0, 0>> \o LowTail)

\* 7FX3000 twice and the completed challenge 7F: 16 + 256 entries, and the
\* block 7F130003000000000 .. 7F130003FFFFFFFFF is in the list twice
C20_Witness ==
    /\ call.op = "scrape_scanned_ranges"
    /\ call.document = <<<<7, 15, CharX, 3, 0, 0, 0>>,
                         <<CharCheck, 7, 15, CharX, CharX, CharX, CharX, CharX>>,
                         <<7, 15, CharX, 3, 0, 0, 0>>>>
    /\ Len(ret) = 272
    /\ Cardinality({i \in 1..Len(ret) :
                      ret[i] = <<<<7, 15, 1, 3, 0, 0, 0>> \o LowTail,
                                 <<7, 15, 1, 3, 0, 0, 0>> \o HighTail>>}) = 2

(* ----------------------- update_coverage_stats -------------------------- *)
\* the view modes of the keyspace map
ViewModes == {"full", "myrange", "4", "5", "6", "7"}

\* int(self.view_mode, 16) of a quarter view
prefix_int == [mode \in {"4", "5", "6", "7"} |->
                  CASE mode = "4" -> 4 [] mode = "5" -> 5 [] mode = "6" -> 6 [] mode = "7" -> 7]

\* The range the statistics are shown for: the whole puzzle range, the range
\* of the last start, or one quarter of the puzzle range.
display_range(view_mode, full_range, range_value) ==
    IF view_mode = "full" THEN full_range
    ELSE IF view_mode = "myrange" THEN range_value
    ELSE IF view_mode \in {"4", "5", "6", "7"}
         THEN LET range_size    == full_range[2] - full_range[1] + 1
                  prefix_size   == range_size \div 4
                  display_start == full_range[1] + (prefix_int[view_mode] - 4) * prefix_size
              IN  <<display_start, display_start + prefix_size - 1>>
         ELSE full_range

\* overlap_keys counting the whole stored block
overlap_keys_whole_block(block_start, block_end, display_start, display_end) ==
    IF block_end >= display_start /\ block_start <= display_end
    THEN block_end - block_start + 1
    ELSE 0

\* what one fetched row adds to the coverage counter
overlap_keys(block_start, block_end, display_start, display_end) ==
    IF block_end >= display_start /\ block_start <= display_end
    THEN LET overlap_start == IF block_start > display_start THEN block_start ELSE display_start
             overlap_end   == Min(block_end, display_end)
         IN  overlap_end - overlap_start + 1
    ELSE 0

\* the loop over the fetched rows of one table
RECURSIVE coverage_keys(_, _, _)
coverage_keys(rows, display_start, display_end) ==
    IF rows = {} THEN 0
    ELSE LET row == CHOOSE r \in rows : TRUE
         IN  overlap_keys(FromHex(row.block_start), FromHex(row.block_end),
                          display_start, display_end)
             + coverage_keys(rows \ {row}, display_start, display_end)

\* The display range and the two counters at the end of update_coverage_stats;
\* None when there is no block manager yet.  preset is the range of the
\* selected puzzle in PUZZLE_PRESETS, None for a puzzle that has no preset.
update_coverage_stats(mgr, pool, mine, view_mode, preset) ==
    IF mgr = None THEN None
    ELSE LET range_value == <<mgr.range_start, mgr.range_end>>
             full_range  == IF preset # None THEN preset ELSE range_value
             display     == display_range(view_mode, full_range, range_value)
         IN  [display_start      |-> display[1],
              display_end        |-> display[2],
              pool_coverage_keys |-> coverage_keys(pool, display[1], display[2]),
              my_coverage_keys   |-> coverage_keys(mine, display[1], display[2])]

\* the preset of the scaled puzzle (10 .. 1F hex), or no preset
Presets == {None, <<16, 31>>}

\* the ranges of the last start
StartedRanges == {<<15, 45>>, <<20, 40>>}

\* The database of an earlier session with no, one or two completed blocks,
\* before the first start or after a start over one of StartedRanges.
InitCoverage ==
    /\ cfg = CfgPlain
    /\ block_mgr \in {None} \cup {BlockManager(r[1], r[2], 15) : r \in StartedRanges}
    /\ pool_scanned = {}
    /\ my_scanned \in {{}, {MyRow(15, 30, MaxKeys)},
                       {MyRow(15, 30, MaxKeys), MyRow(30, 45, MaxKeys)}}
    /\ Constructed
    /\ inputs = 0
    /\ call = NoCall /\ ret = None

update_coverage_stats_call(view_mode, preset) ==
    /\ inputs < MaxCalls
    /\ inputs' = inputs + 1
    /\ call' = [op |-> "update_coverage_stats", view_mode |-> view_mode, preset |-> preset]
    /\ ret' = update_coverage_stats(block_mgr, pool_scanned, my_scanned, view_mode, preset)
    /\ UNCHANGED <<cfg, block_mgr, pool_scanned, my_scanned, coordinator>>

NextCoverage ==
    \/ \E blocks \in BlockLists : add_pool_blocks_call(blocks)
    \/ \E block \in Blocks : \E keys \in 0..MaxKeys : add_my_block_call(block, keys)
    \/ \E view_mode \in ViewModes : \E preset \in Presets :
          update_coverage_stats_call(view_mode, preset)

SpecCoverage == InitCoverage /\ [][NextCoverage]_vars

\* the keys of the display range that lie in a stored block, one pair for
\* every stored block and key
CoveredKeys(table, display_start, display_end) ==
    {p \in Stored(table) \X (display_start..display_end) : p[1][1] <= p[2] /\ p[2] <= p[1][2]}

\* C21: the statistics count, for the pool table and for the table of own
\* blocks separately, the keys of the display range that every stored block
\* covers (for a block that overlaps the range that is min(ends) - max(starts)
\* + 1, for any other block nothing); a key under both sources counts in both.
C21_CoverageSumsOverlaps ==
    (call.op = "update_coverage_stats" /\ ret # None) =>
        /\ ret.pool_coverage_keys
              = Cardinality(CoveredKeys(pool_scanned, ret.display_start, ret.display_end))
        /\ ret.my_coverage_keys
              = Cardinality(CoveredKeys(my_scanned, ret.display_start, ret.display_end))

\* the quarter 20 .. 23 of the preset with [15, 30] stored under both sources
\* and [30, 45] under the own blocks: 4 keys each, 8 for a range of 4 keys
C21_Witness ==
    /\ call.op = "update_coverage_stats" /\ ret # None
    /\ ret.display_start = 20 /\ ret.display_end = 23
    /\ HasRow(pool_scanned, <<15, 30>>) /\ HasRow(my_scanned, <<15, 30>>)
    /\ HasRow(my_scanned, <<30, 45>>)
    /\ ret.pool_coverage_keys = 4 /\ ret.my_coverage_keys = 4
    /\ ret.pool_coverage_keys + ret.my_coverage_keys
          > ret.display_end - ret.display_start + 1

(* ------------------------- calls of the pattern checks ------------------ *)
\* the longest boundary text handed to the checks
MaxHexLen == 7

\* the characters of the boundary texts: '0', '1', '7' and 'A'
HexAlphabet == {0, 1, 7, 10}

\* hex(n)[2:].upper() of the boundaries n >= 0: "0", or a text that does not
\* begin with '0'; and the three texts ABCDEF, 123456, A1B2C3
HexStrings ==
    {h \in UNION {[1..n -> HexAlphabet] : n \in 1..MaxHexLen} : Len(h) = 1 \/ h[1] # 0}
    \cup {<<10, 11, 12, 13, 14, 15>>, <<1, 2, 3, 4, 5, 6>>, <<10, 1, 11, 2, 12, 3>>}

\* the thresholds should_skip_block_by_pattern passes
MinRepeats == {3, 4}

InitPattern ==
    /\ cfg = CfgPlain
    /\ block_mgr = None
    /\ pool_scanned = {} /\ my_scanned = {}
    /\ Constructed
    /\ inputs = 0
    /\ call = NoCall /\ ret = None

has_repeated_chars_call ==
    /\ call = NoCall
    /\ \E hex_string \in HexStrings : \E min_repeats \in MinRepeats :
          /\ call' = [op |-> "has_repeated_chars", hex_string |-> hex_string,
                      min_repeats |-> min_repeats]
          /\ ret' = has_repeated_chars(hex_string, min_repeats)
    /\ UNCHANGED <<cfg, block_mgr, pool_scanned, my_scanned, coordinator, inputs>>

is_all_alpha_or_numeric_call ==
    /\ call = NoCall
    /\ \E hex_string \in HexStrings :
          /\ call' = [op |-> "is_all_alpha_or_numeric", hex_string |-> hex_string]
          /\ ret' = is_all_alpha_or_numeric(hex_string)
    /\ UNCHANGED <<cfg, block_mgr, pool_scanned, my_scanned, coordinator, inputs>>

NextPattern ==
    \/ has_repeated_chars_call
    \/ is_all_alpha_or_numeric_call

SpecPattern == InitPattern /\ [][NextPattern]_vars

\* text has n equal characters other than '0' in a row
HasRun(text, n) ==
    \E i \in 1..(Len(text) - n + 1) :
        /\ text[i] # 0
        /\ \A j \in i..(i + n - 1) : text[j] = text[i]

\* C22: has_repeated_chars with threshold N answers True exactly for the
\* texts with N or more equal consecutive characters other than '0', wherever
\* runs of '0' stand in the text; with N = 3 it answers False for 7000000 and
\* for 7101010.
C22_FlagsNonZeroRuns ==
    call.op = "has_repeated_chars" =>
        /\ ret = HasRun(call.hex_string, call.min_repeats)
        /\ (call.min_repeats = 3
              /\ call.hex_string \in {<<7, 0, 0, 0, 0, 0, 0>>, <<7, 1, 0, 1, 0, 1, 0>>})
           => ret = FALSE

\* 7111111 is flagged with threshold 3
C22_Witness ==
    /\ call.op = "has_repeated_chars"
    /\ call.hex_string = <<7, 1, 1, 1, 1, 1, 1>>
    /\ call.min_repeats = 3
    /\ ret = TRUE

\* C23: is_all_alpha_or_numeric answers True exactly for the texts that are
\* all digits 0-9 or all letters A-F; A1B2C3 is not flagged.
C23_FlagsOneKindOnly ==
    call.op = "is_all_alpha_or_numeric" =>
        /\ ret = (\/ \A i \in 1..Len(call.hex_string) : call.hex_string[i] \in 0..9
                  \/ \A i \in 1..Len(call.hex_string) : call.hex_string[i] \in 10..15)
        /\ call.hex_string = <<10, 1, 11, 2, 12, 3>> => ret = FALSE
        /\ call.hex_string = <<1, 2, 3, 4, 5, 6>> => ret = TRUE

\* ABCDEF is flagged
C23_Witness ==
    /\ call.op = "is_all_alpha_or_numeric"
    /\ call.hex_string = <<10, 11, 12, 13, 14, 15>>
    /\ ret = TRUE

(* -------------------------------- C24 ---------------------------------- *)
\* an enabled pattern check matches the text of one of the two boundaries
Flagged(pat, block) ==
    LET texts == {ToHex(block[1]), ToHex(block[2])}
    IN  \/ pat.exclude_iter3 /\ \E t \in texts : HasRun(t, 3)
        \/ pat.exclude_iter4 /\ \E t \in texts : HasRun(t, 4)
        \/ pat.exclude_alphanum /\ \E t \in texts :
              \/ \A i \in 1..Len(t) : t[i] \in 0..9
              \/ \A i \in 1..Len(t) : t[i] \in 10..15

\* C24: when a selection that starts at index k comes to a block j that an
\* enabled pattern flags on one of its boundaries (every block of [k, j) being
\* claimed or flagged, j among the checks_per_batch indices of the call), the
\* index moves on past j, block j does not become the current block, and the
\* step writes no pool row and no own row for block j.
C24_PatternSkipWritesNothing ==
    [][LET k    == SelectionStart
           mgr  == CfgMgr(cfg)
           last == Min(k + checks_per_batch, mgr.total_blocks) - 1
           \* the indices of the call whose block is neither claimed nor flagged
           free == {i \in k..last :
                      LET b == get_block(mgr, i)
                      IN  /\ ~HasRow(pool_scanned', b) /\ ~HasRow(my_scanned', b)
                          /\ ~Flagged(cfg.pat, b)}
           stop == IF free = {} THEN last + 1
                   ELSE CHOOSE i \in free : \A i2 \in free : i <= i2
       IN  k >= 0 =>
             \A j \in k..(stop - 1) :
                LET block == get_block(mgr, j)
                IN  Flagged(cfg.pat, block) =>
                       /\ current_block_index' > j
                       /\ current_block' # current_block => current_block' # block
                       /\ HasRow(pool_scanned', block) = HasRow(pool_scanned, block)
                       /\ HasRow(my_scanned', block) = HasRow(my_scanned, block)
      ]_vars

\* 0x110FE..0x11201 in blocks of two keys with block 0 completed in an earlier
\* session: start passes block 0 and the flagged blocks 1..99 and goes on in a
\* timeout from index 100; the ledger holds the row of block 0 and nothing else
C24_Witness ==
    /\ cfg = CfgRuns /\ inputs = 1
    /\ current_block_index = checks_per_batch /\ timers > 0
    /\ pool_scanned = {}
    /\ Stored(my_scanned) = {get_block(CfgMgr(CfgRuns), 0)}
    /\ Flagged(cfg.pat, get_block(CfgMgr(CfgRuns), 1))

(* ------------------ StateManager: the progress file --------------------- *)
\* In this part a Python integer of any size is written as its hex digits,
\* most significant first, as ToHex writes it; the text of a number in the
\* JSON file is the sequence of its decimal digits.

\* divmod(n, 10) by long division; q collects the quotient, rem the remainder
RECURSIVE DivMod10(_, _, _)
DivMod10(n, q, rem) ==
    IF n = <<>> THEN [q |-> IntBase16(q), r |-> rem]
    ELSE LET cur == rem * 16 + Head(n)
         IN  DivMod10(Tail(n), Append(q, cur \div 10), cur % 10)

\* n * m + carry, from the least significant digit
RECURSIVE MulAdd(_, _, _)
MulAdd(n, m, carry) ==
    IF n = <<>> THEN (IF carry = 0 THEN <<>> ELSE <<carry>>)
    ELSE LET v == n[Len(n)] * m + carry
         IN  Append(MulAdd(SubSeq(n, 1, Len(n) - 1), m, v \div 16), v % 16)

\* json.dump of an int: its decimal digits
RECURSIVE json_dump_int(_)
json_dump_int(n) ==
    LET d == DivMod10(n, <<>>, 0)
    IN  IF d.q = <<0>> THEN <<d.r>> ELSE Append(json_dump_int(d.q), d.r)

\* the digits of a number text read from the left into acc
RECURSIVE parse_int(_, _)
parse_int(text, acc) ==
    IF text = <<>> THEN acc
    ELSE parse_int(Tail(text), IntBase16(MulAdd(acc, 10, Head(text))))

\* json.load of a number text into a 64-bit integer
json_load_int64(text) ==
    LET n == parse_int(text, <<0>>)
    IN  IF Len(n) > 16 THEN IntBase16(SubSeq(n, Len(n) - 15, Len(n))) ELSE n

\* json.load of a number text without fraction and exponent: int(text)
json_load_int(text) == parse_int(text, <<0>>)

\* StateManager.save_state: the file written for state_data
save_state(state_data) ==
    <<[current_block_index |-> json_dump_int(state_data.current_block_index),
       keys_checked        |-> json_dump_int(state_data.keys_checked)]>>

\* StateManager.load_state: None when there is no file
load_state(file) ==
    IF file = None THEN None
    ELSE <<[current_block_index |-> json_load_int(file[1].current_block_index),
            keys_checked        |-> json_load_int(file[1].keys_checked)]>>

\* 2^64 - 1, 2^64, 2^65 - 1 and the last key of puzzle 71
BigValues == {[i \in 1..16 |-> 15], <<1>> \o [i \in 1..16 |-> 0],
              <<1>> \o [i \in 1..16 |-> 15], <<7>> \o [i \in 1..17 |-> 15]}

\* the block indices and key counts of a session
StateValues == {ToHex(n) : n \in {0, 1, 9, 10, 16, 255, 4096}} \cup BigValues

\* a session at some block index with some keys checked and no progress file
InitState ==
    /\ cfg = CfgPlain
    /\ block_mgr = None
    /\ pool_scanned = {} /\ my_scanned = {}
    /\ is_running = FALSE /\ is_paused = FALSE
    /\ process = 0
    /\ current_block = None
    /\ current_block_index \in StateValues
    /\ keys_checked \in StateValues
    /\ session_keys = 0 /\ matches_found = 0
    /\ retry_count = -1
    /\ start_sens = TRUE /\ pause_sens = FALSE
    /\ idleq = <<>> /\ timers = 0 /\ mainpc = "idle"
    /\ threads = <<>>
    /\ collided = {} /\ matched = {} /\ errored = {}
    /\ state_file = None
    /\ inputs = 0
    /\ call = NoCall /\ ret = None

\* save_current_state as on_pause and on_stop call it
save_current_state_call ==
    /\ call' = [op |-> "save_current_state"]
    /\ state_file' = save_state([current_block_index |-> current_block_index,
                                 keys_checked |-> keys_checked])
    /\ ret' = None
    /\ UNCHANGED <<cfg, block_mgr, pool_scanned, my_scanned, is_running, is_paused, process,
                   current_block, current_block_index, keys_checked, session_keys,
                   matches_found, retry_count, start_sens, pause_sens, idleq, timers,
                   mainpc, threads, collided, matched, errored, inputs>>

\* the program started again: __init__ and load_previous_state
load_previous_state_call ==
    /\ call' = [op |-> "load_previous_state"]
    /\ LET state == load_state(state_file)
       IN  /\ current_block_index' = IF state # None THEN state[1].current_block_index
                                     ELSE ToHex(0)
           /\ keys_checked' = IF state # None THEN state[1].keys_checked ELSE ToHex(0)
           /\ ret' = state
    /\ UNCHANGED <<cfg, block_mgr, pool_scanned, my_scanned, is_running, is_paused, process,
                   current_block, session_keys, matches_found, retry_count, start_sens,
                   pause_sens, idleq, timers, mainpc, threads, collided, matched, errored,
                   state_file, inputs>>

NextState ==
    \/ save_current_state_call
    \/ load_previous_state_call

SpecState == InitState /\ [][NextState]_vars

\* C25: loading the progress file that was saved from the block index and the
\* key count of the session gives exactly that block index and that key
\* count, also for values of 2^64 and more.
C25_SaveLoadRoundTrip ==
    [][(call.op = "save_current_state" /\ load_previous_state_call) =>
          /\ current_block_index' = current_block_index
          /\ keys_checked' = keys_checked
          /\ ret' = <<[current_block_index |-> current_block_index,
                       keys_checked |-> keys_checked]>>
      ]_vars

\* 2^64 keys of block 2^65 - 1 saved as 18446744073709551616 and
\* 36893488147419103231, and loaded again
C25_Witness ==
    /\ call.op = "load_previous_state"
    /\ state_file = <<[current_block_index |-> <<3,6,8,9,3,4,8,8,1,4,7,4,1,9,1,0,3,2,3,1>>,
                       keys_checked |-> <<1,8,4,4,6,7,4,4,0,7,3,7,0,9,5,5,1,6,1,6>>]>>
    /\ keys_checked = <<1>> \o [i \in 1..16 |-> 0]
    /\ current_block_index = <<1>> \o [i \in 1..16 |-> 15]

(* -------------------------------- C26 ---------------------------------- *)
\* a step of a reader thread (run_block_search), not of the main loop
ReaderStep ==
    \E t \in ThreadIds :
        \/ run_block_search_start(t)
        \/ run_block_search_launch_fails(t)
        \/ \E line \in Lines(cfg) : run_block_search_line(t, line)
        \/ run_block_search_eof(t)
        \/ run_block_search_judge(t)

\* C26 (as stated): no step of a reader thread changes the running flag, the
\* paused flag, the session key counter, the match counter, the retry counter,
\* the current block or the block index; only steps of the main loop do.
C26_SingleWriter ==
    [][ReaderStep => UNCHANGED <<is_running, is_paused, session_keys, matches_found,
                                 retry_count, current_block, current_block_index>>]_vars

(* -------------------------------- C27 ---------------------------------- *)
\* C27: a pool scrape leaves the worker process, the reader threads, the
\* current block, the block index and both key counters as they are; when the
\* scraped blocks hold the block in flight of a running session it appends
\* handle_block_collision to the callbacks of the main loop, and otherwise it
\* leaves the callbacks alone.  handle_block_collision runs as a callback of the idle
\* main loop.
C27_ScrapeOnlySignals ==
    [][/\ \A doc \in PoolDocs(cfg) : scrape_pool(doc) =>
             /\ UNCHANGED <<process, threads, current_block, current_block_index,
                            keys_checked, session_keys, is_running, is_paused>>
             /\ idleq' = IF /\ current_block # None /\ is_running
                            /\ \E i \in 1..Len(doc) : doc[i] = current_block
                         THEN Append(idleq, "handle_block_collision")
                         ELSE idleq
       /\ (handle_block_collision /\ current_block_index' # current_block_index) =>
             /\ mainpc = "idle"
             /\ idleq # <<>> /\ Head(idleq) = "handle_block_collision"
             /\ idleq' = Tail(idleq)
      ]_vars

\* the pool has scraped block 0 while its worker runs: the row is in the pool
\* table, the worker still runs on block 0 and the callback waits in the queue
C27_Witness ==
    /\ current_block # None /\ is_running
    /\ current_block \in collided
    /\ HasRow(pool_scanned, current_block)
    /\ process # 0 /\ threads[process].pstate = "run"
    /\ threads[process].range = current_block
    /\ idleq = <<"handle_block_collision">>

(* ------------------- on_start over the entries of the form -------------- *)
\* every range and block size within the bounds, the range also inverted, the
\* block size also 0, and the entries that do not parse
StartConfigs ==
    Ranges
    \cup {[range_start |-> s, range_end |-> e, block_size |-> 0, pat |-> NoPattern] :
             s \in 1..MaxRangeStart, e \in 1..MaxRangeEnd}
    \cup UnparsableConfigs

InitStart ==
    /\ cfg \in StartConfigs
    /\ block_mgr = None
    /\ pool_scanned = {} /\ my_scanned = {}
    /\ Constructed
    /\ inputs = 0
    /\ call = NoCall /\ ret = None

SpecStart == InitStart /\ [][on_start]_vars

(* -------------------------------- C28 ---------------------------------- *)
\* the range or the block size does not parse, the range is inverted, or the
\* block size is 0
InvalidConfig(c) ==
    IF Unparsable(c) THEN TRUE ELSE c.range_start > c.range_end \/ c.block_size = 0

\* C28 (as stated): a press of start with entries that do not parse, with an
\* inverted range or with block size 0 is rejected before any selection: no
\* block manager is installed, the session does not run, no block becomes the
\* current block, no reader thread, no timeout and no retry is created.
C28_InvalidStartRejected ==
    [][(on_start /\ InvalidConfig(cfg)) =>
          /\ UNCHANGED <<block_mgr, is_running, current_block, current_block_index,
                         keys_checked, process, threads, timers, retry_count>>
      ]_vars

(* -------------------------------- C29 ---------------------------------- *)
\* C29 (as stated): a selection from index k ends in one of two ways.  When no
\* block at an index >= k is eligible and the call reaches the end of the
\* range, it leaves current_block_index = total_blocks, no current block, the
\* session not running, no new reader thread, no timeout and no retry.  When a
\* block at an index >= k is eligible, the selection does not end the session
\* as exhausted: after a press of start the session is running.
C29_SelectsOrExhausts ==
    [][LET k   == SelectionStart
           mgr == CfgMgr(cfg)
           E   == {j \in k..(mgr.total_blocks - 1) : Eligible(pool_scanned', my_scanned', j)}
       IN  k >= 0 =>
              /\ (E = {} /\ k + checks_per_batch > mgr.total_blocks) =>
                    /\ current_block_index' = mgr.total_blocks
                    /\ current_block' = None
                    /\ ~is_running'
                    /\ Len(threads') = Len(threads)
                    /\ timers' <= timers
                    /\ retry_count' \in {retry_count, 0}
              /\ (E # {} /\ on_start) => is_running'
      ]_vars

(* ---------------- get_block at and beyond total_blocks ------------------ *)
\* how far beyond the last block the calls go
MaxBeyond == 2

NextBlocksBeyond ==
    \E block_index \in 0..(block_mgr[1].total_blocks + MaxBeyond) : get_block_call(block_index)

SpecBlocksBeyond == InitBlocks /\ [][NextBlocksBeyond]_vars

(* -------------------------------- C30 ---------------------------------- *)
\* the failure of a call, in the place of its return value
IndexOutOfRange == <<"IndexOutOfRange">>

\* C30 (as stated): a call of get_block with an index of total_blocks or more
\* fails with IndexOutOfRange and returns no range.
C30_GetBlockBeyondFails ==
    (call.op = "get_block" /\ call.block_index >= block_mgr[1].total_blocks) =>
        ret = IndexOutOfRange

(* -------------------------------- C31 ---------------------------------- *)
\* a reader thread ends the running session on a failure: the worker could
\* not be launched, or the exit of the worker is judged as a failure
FatalStep ==
    /\ is_running /\ ~is_running'
    /\ \E t \in ThreadIds : run_block_search_launch_fails(t) \/ run_block_search_judge(t)

\* C31 (as stated): the step that ends the session on a fatal condition leaves
\* no worker process running, writes the progress file with the block index
\* and the key count, and leaves the start button enabled for a new start.
C31_FatalStopsAndSaves ==
    [][FatalStep =>
          /\ LiveWorkers(threads') = {}
          /\ state_file' = <<[current_block_index |-> current_block_index',
                              keys_checked |-> keys_checked']>>
          /\ start_sens'
      ]_vars

(* ---------------- the block list: rescan and delete --------------------- *)
\* StateManager.clear_state: the progress file removed
clear_state == None

\* the rows populate_blocks_view lists: 20 before the current index, 19 after
ListedBlocks ==
    IF block_mgr = None THEN {}
    ELSE LET mgr == block_mgr[1]
             lo  == IF current_block_index - 20 > 0 THEN current_block_index - 20 ELSE 0
             hi  == Min(mgr.total_blocks, current_block_index + 20)
         IN  {get_block(mgr, i) : i \in lo..(hi - 1)}

\* DELETE FROM my_scanned WHERE block_start = ?
delete_my_block(table, block_start) ==
    {r \in table : r.block_start # ToHex(block_start)}

\* on_rescan_block for a listed block: there are no manual range entries, so
\* the block becomes the range of the configuration
on_rescan_block(block) ==
    /\ inputs < MaxInputs
    /\ inputs' = inputs + 1
    /\ mainpc = "idle"
    /\ call' = [op |-> "on_rescan_block", block |-> block, current_block |-> current_block]
    /\ ret' = None
    /\ cfg' = [cfg EXCEPT !.range_start = block[1], !.range_end = block[2]]
    /\ my_scanned' = delete_my_block(my_scanned, block[1])
    /\ IF current_block # None /\ block = current_block
       THEN state_file' = clear_state /\ keys_checked' = 0
       ELSE UNCHANGED <<state_file, keys_checked>>
    /\ UNCHANGED <<block_mgr, pool_scanned, is_running, is_paused, process, current_block,
                   current_block_index, session_keys, matches_found, retry_count, start_sens,
                   pause_sens, idleq, timers, mainpc, threads, collided, matched, errored>>

\* on_delete_block for a listed block; response is the answer to the dialog
on_delete_block(block, response) ==
    /\ inputs < MaxInputs
    /\ inputs' = inputs + 1
    /\ mainpc = "idle"
    /\ call' = [op |-> "on_delete_block", block |-> block, current_block |-> current_block,
                response |-> response]
    /\ ret' = None
    /\ IF response = "YES"
       THEN /\ my_scanned' = delete_my_block(my_scanned, block[1])
            /\ IF current_block # None /\ block = current_block
               THEN state_file' = clear_state /\ keys_checked' = 0
               ELSE UNCHANGED <<state_file, keys_checked>>
       ELSE UNCHANGED <<my_scanned, state_file, keys_checked>>
    /\ UNCHANGED <<cfg, block_mgr, pool_scanned, is_running, is_paused, process, current_block,
                   current_block_index, session_keys, matches_found, retry_count, start_sens,
                   pause_sens, idleq, timers, mainpc, threads, collided, matched, errored>>

\* A session over CfgPlain stopped at block k with some keys of it checked
\* (on_stop has written the progress file); the blocks before k completed, or
\* claimed by nobody.
InitDiscard ==
    /\ cfg = CfgPlain
    /\ block_mgr = <<CfgMgr(CfgPlain)>>
    /\ pool_scanned = {}
    /\ current_block_index \in 0..(CfgMgr(CfgPlain).total_blocks - 1)
    /\ current_block = get_block(CfgMgr(CfgPlain), current_block_index)
    /\ my_scanned \in {{}, {MyRow(get_block(CfgMgr(CfgPlain), j)[1],
                                  get_block(CfgMgr(CfgPlain), j)[2], CfgPlain.block_size) :
                              j \in 0..(current_block_index - 1)}}
    /\ keys_checked \in {0} \cup KeyCounts(CfgPlain)
    /\ state_file = save_current_state(current_block_index, keys_checked)
    /\ is_running = FALSE /\ is_paused = FALSE
    /\ process = 0
    /\ session_keys = 0 /\ matches_found = 0
    /\ retry_count = 0
    /\ start_sens = TRUE /\ pause_sens = FALSE
    /\ idleq = <<>> /\ timers = 0 /\ mainpc = "idle"
    /\ threads = <<>>
    /\ collided = {} /\ matched = {} /\ errored = {}
    /\ inputs = 0
    /\ call = NoCall /\ ret = None

NextDiscard ==
    \/ \E block \in ListedBlocks : on_rescan_block(block)
    \/ \E block \in ListedBlocks : \E response \in {"YES", "NO"} : on_delete_block(block, response)
    \/ on_start

SpecDiscard == InitDiscard /\ [][NextDiscard]_vars

(* -------------------------------- C32 ---------------------------------- *)
\* the step discards a listed block: a rescan, or a delete that was confirmed
Discards(block) ==
    \/ on_rescan_block(block)
    \/ on_delete_block(block, "YES")

\* C32 (as stated): a discard of the current block removes the progress file
\* and sets keys_checked to 0, and the start that follows it searches that
\* block again from its first key; a discard of any other block leaves the
\* progress file and the key counters as they are.
C32_DiscardResetsProgress ==
    [][/\ \A block \in ListedBlocks : Discards(block) =>
             IF current_block # None /\ block = current_block
             THEN state_file' = None /\ keys_checked' = 0
             ELSE UNCHANGED <<state_file, keys_checked, session_keys>>
       /\ ( /\ on_start /\ ~is_running
            /\ call.op \in {"on_rescan_block", "on_delete_block"}
            /\ call.op = "on_delete_block" => call.response = "YES"
            /\ call.block = current_block ) =>
             /\ current_block' = call.block
             /\ keys_checked' = 0
             /\ is_running'
             /\ Len(threads') = Len(threads) + 1
      ]_vars

(* -------------------------------- C33 ---------------------------------- *)
\* C33 (as stated): a call of find_next_block from index k that meets
\* checks_per_batch blocks to skip stops at k + checks_per_batch and leaves the
\* rest to a timeout; while a timeout is pending nothing but the timeout moves
\* the index, so the scan goes on exactly where it stopped, every index is
\* examined and none is examined twice.
C33_YieldResumesInPlace ==
    [][LET k   == SelectionStart
           mgr == CfgMgr(cfg)
       IN  /\ (k >= 0 /\ timers' > timers) =>
                 /\ current_block_index' = k + checks_per_batch
                 /\ \A j \in k..(k + checks_per_batch - 1) :
                       ~Eligible(pool_scanned', my_scanned', j)
           /\ (timers > 0 /\ ~find_next_block_timeout) =>
                 current_block_index' = current_block_index
      ]_vars

(* ------------- ScanDatabase.add_my_block on integers of any size -------- *)
\* In this part a Python integer is the sequence of its bytes, most
\* significant first and without leading zero bytes (0 is <<0>>).

\* hex(n)[2:].upper(): the first byte without a leading '0', two digits for
\* every other byte
RECURSIVE HexOfBytes(_)
HexOfBytes(n) ==
    IF Len(n) = 1 THEN ToHex(n[1])
    ELSE HexOfBytes(SubSeq(n, 1, Len(n) - 1)) \o <<n[Len(n)] \div 16, n[Len(n)] % 16>>

\* int(text, 16) of a text of hex digits
RECURSIVE BytesOfHex(_)
BytesOfHex(text) ==
    IF Len(text) <= 2 THEN <<FromHex(text)>>
    ELSE LET high == BytesOfHex(SubSeq(text, 1, Len(text) - 2))
             low  == FromHex(SubSeq(text, Len(text) - 1, Len(text)))
         IN  IF high = <<0>> THEN <<low>> ELSE Append(high, low)

\* the value fits the 64-bit signed INTEGER of SQLite; sqlite3 raises
\* OverflowError when it binds a larger int
FitsInteger(n) == Len(n) < 8 \/ (Len(n) = 8 /\ n[1] < 128)

OverflowError == <<"OverflowError">>

\* The table my_scanned after add_my_block and what the call raised (None when
\* it returned): INSERT OR REPLACE of the two hex texts and the key count.
add_my_block_wide(table, block_start, block_end, keys) ==
    LET row == [block_start |-> HexOfBytes(block_start), block_end |-> HexOfBytes(block_end),
                keys_checked |-> keys]
    IN  IF FitsInteger(keys)
        THEN [table |-> {r \in table : r.block_start # row.block_start} \cup {row},
              raised |-> None]
        ELSE [table |-> table, raised |-> OverflowError]

\* 0, 255, 256, 2^63 - 1, 2^63, 2^64 - 1, 2^64
WideKeys ==
    {<<0>>, <<255>>, <<1, 0>>, <<127>> \o [i \in 1..7 |-> 255], <<128>> \o [i \in 1..7 |-> 0],
     [i \in 1..8 |-> 255], <<1>> \o [i \in 1..8 |-> 0]}

\* blocks below 2^16, around 2^64, and the first and the whole of puzzle 71
WideBlocks ==
    {<<<<4, 0>>, <<4, 255>>>>,
     <<[i \in 1..8 |-> 255], <<1>> \o [i \in 1..8 |-> 0]>>,
     <<<<64>> \o [i \in 1..8 |-> 0], <<64>> \o [i \in 1..3 |-> 0] \o <<15>> \o [i \in 1..4 |-> 255]>>,
     <<<<64>> \o [i \in 1..8 |-> 0], <<127>> \o [i \in 1..8 |-> 255]>>}

InitWide ==
    /\ cfg = CfgPlain
    /\ block_mgr = None
    /\ pool_scanned = {} /\ my_scanned = {}
    /\ Constructed
    /\ inputs = 0
    /\ call = NoCall /\ ret = None

add_my_block_wide_call(block, keys) ==
    /\ inputs < MaxCalls
    /\ inputs' = inputs + 1
    /\ call' = [op |-> "add_my_block", block |-> block, keys_checked |-> keys]
    /\ LET r == add_my_block_wide(my_scanned, block[1], block[2], keys)
       IN  my_scanned' = r.table /\ ret' = r.raised
    /\ UNCHANGED <<cfg, block_mgr, pool_scanned, coordinator>>

NextWide ==
    \E block \in WideBlocks : \E keys \in WideKeys : add_my_block_wide_call(block, keys)

SpecWide == InitWide /\ [][NextWide]_vars

(* -------------------------------- C34 ---------------------------------- *)
\* C34 (as stated): after add_my_block(block_start, block_end, keys_checked)
\* the table holds a row that reads back as exactly these two boundaries and
\* this key count, whatever their size.
C34_LedgerKeepsEveryValue ==
    call.op = "add_my_block" =>
        \E r \in my_scanned :
            /\ BytesOfHex(r.block_start) = call.block[1]
            /\ BytesOfHex(r.block_end) = call.block[2]
            /\ r.keys_checked = call.keys_checked

(* ------------------- scrape_pool when the fetch fails ------------------- *)
\* what requests.get or raise_for_status raises in scrape_scanned_ranges
FetchFailures == {"Timeout", "HTTPError"}

\* a failed fetch handing on the blocks of an older page
scrape_scanned_ranges_failed_stale(failure) == <<<<0, 0>>>>

\* scrape_scanned_ranges when the fetch raises: the handler of line 126
\* returns the empty list
scrape_scanned_ranges_failed(failure) == <<>>

\* scrape_pool with a fetch that fails; the call is kept in call.  With an
\* empty list it takes the branch of line 2051 and only writes to the log.
scrape_pool_fetch_fails(failure) ==
    /\ LET scanned_blocks == scrape_scanned_ranges_failed(failure)
       IN  /\ call' = [op |-> "scrape_pool", failure |-> failure,
                       scanned_blocks |-> scanned_blocks]
           /\ pool_scanned' = IF scanned_blocks # <<>>
                              THEN add_pool_blocks(pool_scanned, scanned_blocks).table
                              ELSE pool_scanned
    /\ UNCHANGED <<cfg, block_mgr, my_scanned, state_file, is_running, is_paused, process,
                   current_block, current_block_index, keys_checked, session_keys,
                   matches_found, retry_count, start_sens, pause_sens, idleq, timers, mainpc,
                   threads, collided, matched, errored, ret, inputs>>

NextFetch ==
    \/ Next
    \/ \E failure \in FetchFailures : scrape_pool_fetch_fails(failure)

SpecFetch == Init /\ [][NextFetch]_vars

(* -------------------------------- C35 ---------------------------------- *)
\* C35: a pool scrape whose fetch fails or times out changes neither table of
\* the ledger, nor the current block, the block index, the key counters, the
\* worker process, the reader threads, the flags of the session or the
\* callbacks of the main loop; a scrape after it ingests its blocks as ever.
C35_FailedFetchChangesNothing ==
    [][/\ (\E failure \in FetchFailures : scrape_pool_fetch_fails(failure)) =>
             UNCHANGED <<pool_scanned, my_scanned, current_block, current_block_index,
                         keys_checked, session_keys, process, threads, is_running,
                         is_paused, retry_count, idleq, timers, state_file>>
       /\ \A doc \in PoolDocs(cfg) :
             (call.op = "scrape_pool" /\ scrape_pool(doc)) =>
                \A i \in 1..Len(doc) : HasRow(pool_scanned', doc[i])
      ]_vars

\* the fetch has timed out while the worker of block 1 runs with half of the
\* block checked, and the pool table is still empty
C35_Witness ==
    /\ call.op = "scrape_pool" /\ call.failure = "Timeout"
    /\ pool_scanned = {}
    /\ is_running /\ current_block_index = 1
    /\ current_block = get_block(CfgMgr(cfg), 1)
    /\ process # 0 /\ threads[process].pstate = "run"
    /\ session_keys > 0

(* ------------------ BlockManager.get_block_from_key -------------------- *)
\* get_block_from_key without the test of line 197
get_block_from_key_unchecked(mgr, key_value) ==
    <<(key_value - mgr.range_start) \div mgr.block_size>>

\* None, or the returned index as <<block_index>>
get_block_from_key(mgr, key_value) ==
    IF key_value < mgr.range_start \/ key_value > mgr.range_end
    THEN None
    ELSE LET block_index == (key_value - mgr.range_start) \div mgr.block_size
         IN  <<block_index>>

\* the keys asked for: every key of the greatest range, and one on each side
KeyValues == 0..(MaxRangeEnd + 1)

get_block_from_key_call(key_value) ==
    /\ call' = [op |-> "get_block_from_key", key_value |-> key_value]
    /\ ret' = get_block_from_key(block_mgr[1], key_value)
    /\ UNCHANGED <<cfg, block_mgr, pool_scanned, my_scanned, coordinator, inputs>>

NextLocate ==
    \E key_value \in KeyValues : get_block_from_key_call(key_value)

SpecLocate == InitBlocks /\ [][NextLocate]_vars

(* -------------------------------- C36 ---------------------------------- *)
\* C36: get_block_from_key(key) returns None exactly when key is below
\* range_start or above range_end; otherwise it returns an index below
\* total_blocks, and that index is the only one whose get_block contains key.
C36_LocatesContainingBlock ==
    call.op = "get_block_from_key" =>
        LET mgr == block_mgr[1]
            key == call.key_value
            Contains(i) == get_block(mgr, i)[1] <= key /\ key <= get_block(mgr, i)[2]
        IN  /\ (ret = None) <=> (key < mgr.range_start \/ key > mgr.range_end)
            /\ ret # None =>
                  /\ Len(ret) = 1
                  /\ ret[1] \in 0..(mgr.total_blocks - 1)
                  /\ \A i \in 0..(mgr.total_blocks - 1) : Contains(i) <=> i = ret[1]

\* a key in the last, shorter block of a range of three blocks
C36_Witness ==
    /\ call.op = "get_block_from_key"
    /\ block_mgr[1].total_blocks = 3
    /\ (block_mgr[1].range_end - block_mgr[1].range_start + 1) % block_mgr[1].block_size # 0
    /\ call.key_value = block_mgr[1].range_end
    /\ ret = <<2>>

\* a key one below range_start and a key one above range_end: both None
C36_WitnessOutside ==
    /\ call.op = "get_block_from_key"
    /\ call.key_value \in {block_mgr[1].range_start - 1, block_mgr[1].range_end + 1}
    /\ ret = None

(* -------------------------------- C37 ---------------------------------- *)
\* reader thread t is left over from an earlier search: its own worker has
\* ended, and self.process is the running worker of a search started later
StaleReader(t) ==
    /\ threads[t].pc \in {"loop", "wait"}
    /\ threads[t].pstate = "dead"
    /\ process # 0 /\ process # t
    /\ threads[process].pstate = "run"
    /\ is_running /\ ~is_paused

\* C37: a step of a reader thread left over from an earlier search leaves the
\* running flag of the later search set, queues no completion callback for the
\* later block and leaves the retry counter alone.
C37_StaleReaderIsInert ==
    [][\A t \in ThreadIds :
          (StaleReader(t) /\ (run_block_search_eof(t) \/ run_block_search_judge(t))) =>
             /\ is_running' = is_running
             /\ idleq' = idleq
             /\ retry_count' = retry_count
      ]_vars

(* --------------------- a start that is left alone ---------------------- *)
\* The coordinator when the user presses Start and nothing interrupts the
\* search: no pause, no stop, no pool scrape, and the worker only ends when
\* the coordinator terminates it.
NextSearch ==
    \/ on_start
    \/ find_next_block_timeout
    \/ on_block_completed
    \/ on_block_completed_terminate
    \/ \E t \in ThreadIds : run_block_search_start(t)
    \/ \E t \in ThreadIds : \E line \in Lines(cfg) : run_block_search_line(t, line)
    \/ \E t \in ThreadIds : run_block_search_eof(t)
    \/ \E t \in ThreadIds : run_block_search_judge(t)

\* The GLib main loop runs a timeout that is due and a callback that is
\* queued, and the interpreter schedules a thread that was started.
SpecSearch ==
    /\ Init /\ [][NextSearch]_vars
    /\ WF_vars(find_next_block_timeout)
    /\ WF_vars(on_block_completed)
    /\ WF_vars(on_block_completed_terminate)
    /\ WF_vars(\E t \in ThreadIds : run_block_search_start(t))
    /\ WF_vars(\E t \in ThreadIds : run_block_search_eof(t))
    /\ WF_vars(\E t \in ThreadIds : run_block_search_judge(t))

(* -------------------------------- C38 ---------------------------------- *)
\* the index the session resumes at (load_previous_state)
ResumeIndex == IF state_file = None THEN 0 ELSE state_file[1].current_block_index

\* the eligible blocks at or after the resume index
EligibleAhead ==
    {j \in ResumeIndex..(CfgMgr(cfg).total_blocks - 1) : Eligible(pool_scanned, my_scanned, j)}

\* running flag set, exactly one worker started and alive, and it works on the
\* lowest eligible block at or after the resume index
SearchingLowest ==
    /\ EligibleAhead # {}
    /\ LET j == CHOOSE i \in EligibleAhead : \A k \in EligibleAhead : i <= k
       IN  /\ is_running /\ ~is_paused
           /\ current_block_index = j
           /\ current_block = get_block(CfgMgr(cfg), j)
           /\ LiveWorkers(threads) = {process}
           /\ threads[process].range[2] = current_block[2]

\* C38: once Start is pressed with an eligible block at or after the resume
\* index, the coordinator eventually searches the lowest such block with the
\* running flag set and exactly one worker, also when more than
\* checks_per_batch ineligible blocks precede it.
C38_StartReachesSearching ==
    (<>(block_mgr # None /\ EligibleAhead # {})) => <>SearchingLowest

\* the same for the starts that find their block within the first
\* checks_per_batch indices
C38_StartWithoutYieldReachesSearching ==
    (<>(block_mgr # None /\ EligibleAhead # {} /\ timers = 0 /\ current_block_index < checks_per_batch))
        => <>SearchingLowest

(* -------------------------------- C39 ---------------------------------- *)
\* C39: while the coordinator is paused (running flag and pause flag set), a
\* step other than the resume of on_pause starts no worker process and leaves
\* the current block and its index as they are.
C39_PausedStartsNoWorker ==
    [][(is_running /\ is_paused /\ ~on_pause) =>
          /\ LiveWorkers(threads') \subseteq LiveWorkers(threads)
          /\ current_block' = current_block
          /\ current_block_index' = current_block_index
      ]_vars

(* ------------------ add_pool_blocks on lists of any kind ---------------- *)
\* the greatest number of blocks in a list handed to add_pool_blocks
MaxListLen == 3

\* the lists of blocks: empty, or up to MaxListLen blocks, repeated starts and
\* repeated blocks included
PoolLists ==
    UNION {[1..n -> Blocks] : n \in 0..MaxListLen}

NextPoolLists ==
    \/ \E blocks \in PoolLists : add_pool_blocks_call(blocks)
    \/ \E block \in Blocks : \E keys \in 0..MaxKeys : add_my_block_call(block, keys)

SpecPoolLists == InitLedger /\ [][NextPoolLists]_vars

(* -------------------------------- C40 ---------------------------------- *)
\* C40: every call add_pool_blocks(L) returns (added, duplicate) with
\* added + duplicate = Len(L); the pool table grows by exactly added rows;
\* added is the number of different starts in L that had no pool row before the
\* call, so a start is counted as added at most once and every other occurrence
\* of it as duplicate; the rows of my_scanned are as they were.
C40_AddedPlusDuplicate ==
    [][(call'.op = "add_pool_blocks" /\ inputs' = inputs + 1) =>
          LET L      == call'.blocks
              added  == ret'[1]
              dup    == ret'[2]
              starts == {L[i][1] : i \in 1..Len(L)}
              new    == {st \in starts : \A r \in Stored(pool_scanned) : r[1] # st}
          IN  /\ added + dup = Len(L)
              /\ Cardinality(pool_scanned') = Cardinality(pool_scanned) + added
              /\ added = Cardinality(new)
              /\ {r[1] : r \in Stored(pool_scanned')} = {r[1] : r \in Stored(pool_scanned)} \cup starts
              /\ my_scanned' = my_scanned
      ]_vars

\* start 15 twice and the stored start 30 once in one list, with a row of
\* my_scanned on start 15: one added, two duplicates
C40_Witness ==
    /\ call.op = "add_pool_blocks"
    /\ call.blocks = <<<<15, 30>>, <<30, 45>>, <<15, 45>>>>
    /\ ret = <<1, 2>>
    /\ Stored(pool_scanned) = {<<15, 45>>, <<30, 45>>}
    /\ my_scanned = {MyRow(15, 30, MaxKeys)}
    /\ inputs = 2

====
